---- MODULE Spec2Model ----
(***************************************************************************)
(* Release resolution engine of pd_inject: the request coalescer and the   *)
(* search debouncer of main.py (handle_availability, handle_search), the   *)
(* selection ledger (data_store, handle_download), and the pipeline steps  *)
(* they call: torrentio.scrape, realdebrid.check, releases.type_filter and *)
(* releases.sort.                                                          *)
(*                                                                         *)
(* A Python dict is a TLA+ record; a key the dict does not hold is a field *)
(* missing from DOMAIN, so a KeyError is a test on DOMAIN.  None is 0 for  *)
(* season and episode numbers (the code only tests their truthiness).      *)
(***************************************************************************)
EXTENDS Integers, Sequences, FiniteSets, TLC

\* ------------------------------------------------------------- bounds
\* request-handling threads of the Flask server that run at the same time
NCalls == 2
\* distinct media targets / search queries a client may ask for
NTargets == 2
\* streams torrentio lists for one target
MaxCands == 2
\* handles (uuid4 keys) data_store comes to hold in one run of the server
MaxHandles == 2
\* requests the server takes in one run
MaxRequests == 4
\* requests it takes beside a client that asks for every profile, or that
\* keeps asking
MaxBeside == 3

\* ------------------------------------------------- program constants
\* main.py:301  "if time.time() - last_search_time > 1"
QuietThreshold == 1
\* common.py:34  "max_retries=3", the value every session is built with
MAX_RETRIES == 3

Calls == 1..NCalls
Targets == 1..NTargets

\* a function of the pipeline applied on its own: its arguments, how often
\* it has run and what it returned
VARIABLE pf

\* ------------------------------------------------------------ helpers
Has(r, k) == k \in DOMAIN r
\* dict.update(u) / assignment of keys: the keys of u win
Upd(r, u) == u @@ r
SeqToSet(s) == {s[i] : i \in DOMAIN s}
Min2(a, b) == IF a < b THEN a ELSE b
Max2(a, b) == IF a > b THEN a ELSE b

\* Python's list.sort(key=..., reverse=True): a stable descending sort.
\* ge[i][j] is "key(s[i]) >= key(s[j])"; the sort places the indices of s:
\* an index goes behind every index already placed whose key is >= its own,
\* so equal keys keep their order.
InsertDesc(acc, x, ge) ==
    LET p == Cardinality({j \in DOMAIN acc : ge[acc[j]][x]})
    IN  SubSeq(acc, 1, p) \o <<x>> \o SubSeq(acc, p + 1, Len(acc))

StableSortDesc(s, ge) ==
    LET F[i \in 0..Len(s)] ==
            IF i = 0 THEN <<>> ELSE InsertDesc(F[i - 1], i, ge)
    IN  [p \in DOMAIN s |-> s[F[Len(s)][p]]]

\* ------------------------------------------- the external services
\* What the metadata provider, torrentio and real-debrid answer is fixed per
\* target and per hash; whether a call is answered at all is chosen by the
\* actions.  Target t is a movie when t is odd and season 1 of a show when
\* t is even.  The streams of a movie are, in the order torrentio lists them:
\*   odd   not cached (absent from the availability response)
\*   even  cached, one grouping that does not fit the target and one that
\*         does
\* and those of a show:
\*   odd   cached, one grouping that does not fit the target and one that
\*         does
\*   even  cached, its only grouping fits the target
\* Real-debrid also holds a torrent that torrentio lists for none of the
\* targets (Unlisted): its only grouping has no video.
\* A response may also be malformed: the last grouping of every hash it
\* lists then holds no file.
IsMovie(t) == t % 2 = 1
Hash(t, i) == (t - 1) * MaxCands + i
TargetOf(h) == ((h - 1) \div MaxCands) + 1
IndexOf(h) == ((h - 1) % MaxCands) + 1
Unlisted == NTargets * MaxCands + 1

File(id, video, subtitle, season, episode) ==
    [id |-> id, size |-> 1, video |-> video, subtitle |-> subtitle,
     season |-> season, episode |-> episode]

\* response[hash]['rd'] of the instantAvailability call: a list of groupings,
\* each the files of one grouping already classified by common.match
ResponseRd(h, malformed) ==
    LET odd == IndexOf(h) % 2 = 1
        m == IsMovie(TargetOf(h))
        good == IF m THEN <<File(1, TRUE, FALSE, 0, 0), File(2, FALSE, TRUE, 0, 0)>>
                     ELSE <<File(1, TRUE, FALSE, 1, 1), File(2, TRUE, FALSE, 1, 2)>>
        bad  == IF m THEN <<File(3, FALSE, TRUE, 0, 0)>>
                     ELSE <<File(1, TRUE, FALSE, 1, 1)>>
        rd == CASE h = Unlisted -> <<bad>>
                 [] m /\ odd -> <<>>
                 [] m /\ ~odd -> <<bad, good>>
                 [] ~m /\ odd -> <<bad, good>>
                 [] OTHER -> <<good>>
    IN  IF malformed /\ rd # <<>> THEN Append(rd, <<>>) ELSE rd

\* the answers of the instantAvailability call: none, or a JSON object
Responses == {"none", "json", "malformed"}

InResponse(h) == ResponseRd(h, FALSE) # <<>>

\* ---------------------------------------------------- torrentio.scrape
\* One scraped release (torrentio.py 73-82).  languages, source and magnet
\* are carried unchanged by every later step and are left out.
Stream(t, i) ==
    [title |-> "torrentio", resolution |-> IF i % 2 = 1 THEN 1080 ELSE 2160,
     size |-> i, seeders |-> i % 3, hash |-> Hash(t, i)]

\* scrape(type, imdb, s, e): the releases of the streams answered for imdb.
\* A fetch that is not answered ends in the except clause (line 90), imdb
\* None has no streams (line 50): both give an empty list, never an
\* exception.
scrape(imdb, answered) ==
    IF answered /\ imdb # 0 THEN [i \in 1..MaxCands |-> Stream(imdb, i)] ELSE <<>>

\* ---------------------------------------------------- realdebrid.check
RECURSIVE SeasonsOf(_)
\* version['seasons'] (lines 69-70): seasons of the video files, in order,
\* each once
SeasonsOf(files) ==
    IF files = <<>> THEN <<>>
    ELSE LET front == SeasonsOf(SubSeq(files, 1, Len(files) - 1))
             f == files[Len(files)]
         IN  IF f.season # 0 /\ f.video /\ f.season \notin SeqToSet(front)
             THEN Append(front, f.season) ELSE front

RECURSIVE SumSize(_)
SumSize(files) ==
    IF files = <<>> THEN 0 ELSE files[1].size + SumSize(Tail(files))

IsVideoFile(f) == f.video
IsSubtitleFile(f) == f.subtitle
\* a count of every file that carries an episode token
HasEpisodeToken(f) == f.episode # 0
\* line 71: int(bool(file['episode']) and file['video'])
IsEpisodeFile(f) == f.episode # 0 /\ f.video
CountVideos(files) == Cardinality({i \in DOMAIN files : IsVideoFile(files[i])})
CountSubtitles(files) ==
    Cardinality({i \in DOMAIN files : IsSubtitleFile(files[i])})
CountEpisodes(files) ==
    Cardinality({i \in DOMAIN files : IsEpisodeFile(files[i])})

\* lines 54-72: one Version from one reported grouping
MakeVersion(files) ==
    [size |-> SumSize(files), files |-> files,
     videos |-> CountVideos(files),
     episodes |-> CountEpisodes(files),
     subtitles |-> CountSubtitles(files),
     seasons |-> SeasonsOf(files)]

\* line 75: key (videos, videos / len(files)), reverse=True
VersionGE(x, y) ==
    \/ x.videos > y.videos
    \/ /\ x.videos = y.videos
       /\ x.videos * Len(y.files) >= y.videos * Len(x.files)

\* line 75 raises ZeroDivisionError when a grouping lists no file
DivByZero(r) == \E j \in DOMAIN r.versions : Len(r.versions[j].files) = 0

\* lines 30-34
CheckInit(r) == Upd(r, [cached |-> <<>>, versions |-> <<>>])
\* line 49
IsCached(r) == InResponse(r.hash)
\* a selection that walks the response instead of the list: the cached
\* releases come out in the order of their hashes
KeepInResponseOrder(list) ==
    LET cached == SelectSeq(list, IsCached)
        ge == [i \in DOMAIN cached |-> [j \in DOMAIN cached |->
                  cached[i].hash <= cached[j].hash]]
    IN  StableSortDesc(cached, ge)

\* line 49: releases[:] = [release for release in releases if ...]
KeepCached(list) == SelectSeq(list, IsCached)

\* lines 53-72
BuildVersions(r, malformed) ==
    LET rd == ResponseRd(r.hash, malformed)
    IN  [r EXCEPT !.versions = [g \in DOMAIN rd |-> MakeVersion(rd[g])]]
\* line 75: versions.sort(key=..., reverse=True)
SortVersions(versions) ==
    LET ge == [i \in DOMAIN versions |-> [j \in DOMAIN versions |->
                  VersionGE(versions[i], versions[j])]]
    IN  StableSortDesc(versions, ge)
\* lines 75-86
Promote(r) ==
    LET vs == SortVersions(r.versions)
    IN  Upd(r, [versions |-> vs, size |-> vs[1].size, videos |-> vs[1].videos,
                seasons |-> vs[1].seasons, episodes |-> vs[1].episodes,
                cached |-> <<"RD">>])
\* releases.print (common.py 282), called at line 89
PrintSize(r) == Upd(r, [printsize |-> r.size])

\* check(releases): the list it leaves behind.  response = "none" is a
\* lookup whose session.get gave None or unreadable content: the exception
\* is caught at line 92 and the list keeps every release.
check(list, response) ==
    LET init == [i \in DOMAIN list |-> CheckInit(list[i])]
        kept == KeepCached(init)
        built == [i \in DOMAIN kept |->
                     BuildVersions(kept[i], response = "malformed")]
        bad == {i \in DOMAIN kept : DivByZero(built[i])}
        stop == IF bad = {} THEN Len(kept) + 1
                ELSE CHOOSE i \in bad : \A j \in bad : i <= j
        done == [i \in DOMAIN kept |->
                    IF i < stop THEN Promote(built[i])
                    ELSE IF i = stop THEN built[i] ELSE kept[i]]
    IN  IF Len(list) = 0 THEN list
        ELSE IF response = "none" THEN init
        ELSE IF stop <= Len(kept) THEN done
        ELSE [i \in DOMAIN done |-> PrintSize(done[i])]

\* ------------------------------------------------ releases.type_filter
\* len(seasons - set(x['seasons']))
MissingSeasons(s, x) == Cardinality(SeqToSet(s) \ SeqToSet(x.seasons))

\* the removal test with "at least half" in place of "more than half"
RejectsAtHalf(x, type, s, e) ==
    IF type = "movie" THEN x.videos = 0
    ELSE IF Len(s) > 1
         THEN 2 * MissingSeasons(s, x) >= Len(s) \/ x.episodes <= 1
    ELSE IF e = 0
         THEN MissingSeasons(s, x) > 0 \/ x.episodes <= 1
    ELSE MissingSeasons(s, x) > 0 \/ x.episodes # 1

\* the removal test that lets a single episode pass for a season
RejectsNoEpisode(x, type, s, e) ==
    IF type = "movie" THEN x.videos = 0
    ELSE IF Len(s) > 1
         THEN 2 * MissingSeasons(s, x) > Len(s) \/ x.episodes <= 1
    ELSE IF e = 0
         THEN MissingSeasons(s, x) > 0 \/ x.episodes < 1
    ELSE MissingSeasons(s, x) > 0 \/ x.episodes # 1

\* the removal test of the four branches (lines 331, 348, 363, 377), for a
\* release or a version x
Rejects(x, type, s, e) ==
    IF type = "movie" THEN x.videos = 0
    ELSE IF Len(s) > 1
         THEN 2 * MissingSeasons(s, x) > Len(s) \/ x.episodes <= 1
    ELSE IF e = 0
         THEN MissingSeasons(s, x) > 0 \/ x.episodes <= 1
    ELSE MissingSeasons(s, x) > 0 \/ x.episodes # 1

\* the key the removal test reads first: a release that lacks it raises
FirstKey(type) == IF type = "movie" THEN "videos" ELSE "seasons"

\* a filter that leaves the versions of a kept release alone
KeepVersions(r, type, s, e) == r

\* lines 334-336 and their copies: versions.remove of the rejected versions
PruneVersions(r, type, s, e) ==
    LET Keeps(v) == ~Rejects(v, type, s, e)
    IN  [r EXCEPT !.versions = SelectSeq(r.versions, Keeps)]

Tag(r, type) == Upd(r, [type |-> type])

\* type_filter(list, type, s, e), a target being [type, s, sNone, e].
\* The loop walks a copy of the list and mutates the list in place, so what
\* it did before an exception stays: [list, raised].
type_filter(list, tg) ==
    LET type == tg.type
        s == tg.s
        e == tg.e
        unkeyed == {i \in DOMAIN list : ~Has(list[i], FirstKey(type))}
        stop == IF unkeyed = {} THEN Len(list) + 1
                ELSE CHOOSE i \in unkeyed : \A j \in unkeyed : i <= j
        KeptIdx == {i \in 1..(stop - 1) : ~Rejects(list[i], type, s, e)}
        Processed(r) == ~Rejects(r, type, s, e)
        head == SelectSeq(SubSeq(list, 1, stop - 1), Processed)
        pruned == [i \in DOMAIN head |-> PruneVersions(head[i], type, s, e)]
        body == pruned \o SubSeq(list, stop, Len(list))
        kind == IF type = "movie" THEN "movie" ELSE "show"
        tagged == [i \in DOMAIN body |-> Tag(body[i], kind)]
        \* lines 374-384: the tagging loop sits inside the walk
        lastBranch == type # "movie" /\ Len(s) = 1 /\ e # 0
    IN  IF type # "movie" /\ tg.sNone
        THEN [list |-> list, raised |-> TRUE]        \* set(None), line 341
        ELSE IF lastBranch
        THEN [list |-> IF KeptIdx # {} THEN tagged ELSE body,
              raised |-> stop <= Len(list)]
        ELSE IF stop <= Len(list)
        THEN [list |-> body, raised |-> TRUE]
        ELSE [list |-> tagged, raised |-> FALSE]

\* -------------------------------------------------------- releases.sort
\* The mock servers of settings["versions"] (plex.py 45-48): FILTERS and
\* RULES are expressions over a release, evaluated with eval.
Servers ==
    << [SERVERNAME |-> "A", FILTERS |-> <<>>,
        RULES |-> <<"release['resolution']">>, RESULTS |-> 1],
       [SERVERNAME |-> "B", FILTERS |-> <<"release['resolution'] <= 1080">>,
        RULES |-> <<"release['size']", "release['seeders']">>, RESULTS |-> 2],
       [SERVERNAME |-> "C",
        FILTERS |-> <<"release['resolution'] <= 1080",
                      "release['seeders'] >= 1">>,
        RULES |-> <<"release['size']">>, RESULTS |-> 1] >>

RuleKey(rule) ==
    CASE rule = "release['resolution']" -> "resolution"
      [] rule = "release['size']" -> "size"
      [] rule = "release['seeders']" -> "seeders"

EvalFilter(filter, release) ==
    CASE filter = "release['resolution'] <= 1080" -> release.resolution <= 1080
      [] filter = "release['seeders'] >= 1" -> release.seeders >= 1

\* filters that each select from the list as it was given: only the last
\* one takes effect
ApplyLastFilter(filters, list) ==
    IF filters = <<>> THEN list
    ELSE LET Passes(release) == EvalFilter(filters[Len(filters)], release)
         IN  SelectSeq(list, Passes)

RECURSIVE ApplyFilters(_, _)
\* lines 401-402
ApplyFilters(filters, list) ==
    IF filters = <<>> THEN list
    ELSE LET Passes(release) == EvalFilter(Head(filters), release)
         IN  ApplyFilters(Tail(filters), SelectSeq(list, Passes))

RECURSIVE ApplyRulesBackwards(_, _)
\* the rules applied last to first
ApplyRulesBackwards(rules, list) ==
    IF rules = <<>> THEN list
    ELSE LET k == RuleKey(rules[Len(rules)])
             ge == [i \in DOMAIN list |-> [j \in DOMAIN list |->
                       list[i][k] >= list[j][k]]]
         IN  ApplyRulesBackwards(SubSeq(rules, 1, Len(rules) - 1),
                                 StableSortDesc(list, ge))

RECURSIVE ApplyRules(_, _)
\* lines 408-409
ApplyRules(rules, list) ==
    IF rules = <<>> THEN list
    ELSE LET k == RuleKey(Head(rules))
             ge == [i \in DOMAIN list |-> [j \in DOMAIN list |->
                       list[i][k] >= list[j][k]]]
         IN  ApplyRules(Tail(rules), StableSortDesc(list, ge))

\* release['episodes'] of the key function of line 405; NoKey stands for
\* the KeyError of a release without that key
NoKey == 0 - 1
Episodes(r) == IF Has(r, "episodes") THEN r.episodes ELSE NoKey
EpisodesGE(x, y) == Episodes(x) >= Episodes(y)

\* a sort that takes releases without 'episodes' and ranks them last
SortTolerant(list) == FALSE

\* line 405 raises KeyError when a release has no 'episodes' key
SortRaises(list) == \E i \in DOMAIN list : Episodes(list[i]) = NoKey

\* sort(server, list): [list, raised].  isNone: the list is None (the global
\* releases before any scrape), which line 402 or 405 cannot take.
sort(server, list, isNone) ==
    LET filtered == ApplyFilters(server.FILTERS, list)
    IN  IF isNone \/ SortRaises(filtered)
        THEN [list |-> <<>>, raised |-> TRUE]
        ELSE LET ge == [i \in DOMAIN filtered |-> [j \in DOMAIN filtered |->
                           EpisodesGE(filtered[i], filtered[j])]]
             IN  [list |-> ApplyRules(server.RULES,
                                      StableSortDesc(filtered, ge)),
                  raised |-> FALSE]

\* What list.sort(key=..., reverse=True) promises of its result, whatever
\* way it gets there: the elements of s, one place each, by key descending,
\* and those with equal keys in the order s has them (the sort is stable,
\* and reverse keeps the order of equal elements).  p[a] is the index in s
\* of the element placed a-th.
Places(s) ==
    {p \in [DOMAIN s -> DOMAIN s] :
        \A a, b \in DOMAIN s : a # b => p[a] # p[b]}

Descending(p, ge) == \A a, b \in DOMAIN p : a < b => ge[p[a]][p[b]]

\* a sort that is not stable
TiesAnyOrder(p, ge) == TRUE

KeepsTies(p, ge) ==
    \A a, b \in DOMAIN p : (a < b /\ ge[p[b]][p[a]]) => p[a] < p[b]

\* the lists list.sort may leave
SortedLists(s, ge) ==
    {[a \in DOMAIN s |-> s[p[a]]] :
        p \in {q \in Places(s) : Descending(q, ge) /\ KeepsTies(q, ge)}}

RECURSIVE RuleOutcomes(_, _)
\* lines 408-409, every sort being any that list.sort may do
RuleOutcomes(rules, list) ==
    IF rules = <<>> THEN {list}
    ELSE LET k == RuleKey(Head(rules))
             ge == [i \in DOMAIN list |-> [j \in DOMAIN list |->
                       list[i][k] >= list[j][k]]]
         IN  UNION {RuleOutcomes(Tail(rules), l) : l \in SortedLists(list, ge)}

\* what a run of sort(server, list) may return
SortOutcomes(server, list) ==
    LET filtered == ApplyFilters(server.FILTERS, list)
    IN  IF SortRaises(filtered)
        THEN {[list |-> <<>>, raised |-> TRUE]}
        ELSE LET ge == [i \in DOMAIN filtered |-> [j \in DOMAIN filtered |->
                           EpisodesGE(filtered[i], filtered[j])]]
             IN  {[list |-> l, raised |-> FALSE] :
                    l \in UNION {RuleOutcomes(server.RULES, e) :
                                    e \in SortedLists(filtered, ge)}}

\* ------------------------------------------------------------- state
VARIABLES
    releases,           \* main.py 123: the global list (snapshot)
    relStage,           \* history: what releases holds: "none" (None),
                        \* "scraped", "checked" or "filtered"
    processing,         \* main.py 125: the slot flag
    processing_lock,    \* main.py 124: 0 = free, else the call holding it
    since_search,       \* time.time() - last_search_time (main.py 127, 301),
                        \* counted up to QuietThreshold + 1
    last_search_term,   \* main.py 128: the global, which no handler assigns
    requests,           \* history: the requests that have reached
                        \* handle_availability or handle_search, counted up
                        \* to MaxRequests
    data_store,         \* main.py 129: handle -> stored list (handle = index)
    th,                 \* the frame of each request-handling thread
    issued,             \* history, per handle: the hashes of the list as
                        \* it was stored, and of the call that stored it
                        \* its query, the stage of the snapshot it ranked,
                        \* its enteredDuring and its failed, and the
                        \* mock server the list was ranked for
    reported,           \* history: hashes a received availability response
                        \* listed with a non-empty 'rd' list
    dl                  \* history: the last download request and what it did

vars == <<releases, relStage, processing, processing_lock, since_search,
          last_search_term, requests, data_store, th, issued, reported, dl, pf>>

\* mock_server of a handler (main.py 207-210, 308-311): the server named in
\* the path, or all of mock_servers
ServerChoices == {<<1>>, <<1, 2>>}

NoneTarget == [type |-> "None", imdb |-> 0, s |-> <<>>, sNone |-> TRUE, e |-> 0]

\* mockserver.identify (plex.py 379-445): (type, imdb, s, e) of the guid, or
\* four None when anything in it raised (line 444)
identify(t, ok) ==
    IF ~ok THEN NoneTarget
    ELSE IF IsMovie(t)
    THEN [type |-> "movie", imdb |-> t, s |-> <<>>, sNone |-> TRUE, e |-> 0]
    ELSE [type |-> "show", imdb |-> t, s |-> <<1>>, sNone |-> FALSE, e |-> 0]

\* torrentio.search (torrentio.py 97-136) of an answered query:
\* s = [match.season(query)], e = match.episode(query)
search(q) ==
    IF IsMovie(q)
    THEN [type |-> "movie", imdb |-> q, s |-> <<0>>, sNone |-> FALSE, e |-> 0]
    ELSE [type |-> "show", imdb |-> q, s |-> <<1>>, sNone |-> FALSE, e |-> 0]

\* no release fetched.  cur is what deepcopy has taken from the list: obj
\* with live when the release is an element of the list the global is bound
\* to (obj then holds its hash only, the content is read in the list), mid
\* when some of its items have been copied, grown when the dict was given a
\* key after it was fetched.
NoRef == [live |-> FALSE, mid |-> FALSE, grown |-> FALSE, obj |-> [hash |-> 0]]

\* A frame: the handler's locals (pc, route, query, mock_server,
\* last_search_term, requests, tg, local_releases, k), the locals of the calls it is
\* in (response of realdebrid.check; of copy.deepcopy the list y it builds,
\* the index at of the list iterator and the release cur it has fetched;
\* ret the line deepcopy returns to), two facts about its objects:
\*   shared         local_releases is the list the global is bound to
\*   rest           what the list deepcopy iterates holds from the index of
\*                  its iterator on, from the moment no thread changes that
\*                  list any more (at is 0 then)
\* and its history:
\*   ran            it moved the slot from Idle to Resolving
\*   arrivedIdle    processing was False when it reached the coalescer
\*   enteredDuring  another call's pipeline was running when it reached it
\*   failed         its source fetch or its cache lookup was not answered
\*   superseded     the search recorded last before line 304 was for
\*                  another query
\*   localStage     stage of the global when the copy into local_releases
\*                  began
\*   snapshot       hashes of the list copied after the pipeline (line 226)
\* A handler that has returned or raised leaves the idle frame behind.
IdleFrame ==
    [pc |-> "idle", route |-> "none", query |-> 0, mock_server |-> <<>>,
     last_search_term |-> 0, tg |-> NoneTarget, local_releases |-> <<>>,
     k |-> 1, ran |-> FALSE, arrivedIdle |-> FALSE, enteredDuring |-> FALSE,
     failed |-> FALSE, superseded |-> FALSE, localStage |-> "none",
     snapshot |-> <<>>, response |-> "none", ret |-> "reset", y |-> <<>>,
     at |-> 0, rest |-> <<>>, cur |-> NoRef, shared |-> FALSE]

\* dl: the download request under way or served last: its position (at),
\* id and num, whether data_store held id and how long its list was, the
\* hashes handed to realdebrid.download in order, the version whose links
\* came back (v), whether a download returned True (ok), the hash handed to
\* plex.library.refresh (0: none), whether data_store changed
NoDownload ==
    [outcome |-> "none", at |-> "idle", id |-> 0, num |-> 0, known |-> FALSE,
     len |-> 0, attempted |-> <<>>, v |-> 0, ok |-> FALSE, refreshed |-> 0,
     changed |-> FALSE]

NoRun == [fn |-> "none", runs |-> 0]

\* the state of the server after the module is loaded, but for pf
Loaded ==
    /\ releases = <<>>
    /\ relStage = "none"
    /\ processing = FALSE
    /\ processing_lock = 0
    /\ since_search = QuietThreshold + 1
    /\ last_search_term = 0
    /\ requests = 0
    /\ data_store = <<>>
    /\ th = [c \in Calls |-> IdleFrame]
    /\ issued = <<>>
    /\ reported = {}
    /\ dl = NoDownload

Init == Loaded /\ pf = NoRun

Set(c, u) == [th EXCEPT ![c] = Upd(th[c], u)]

Return(c) == [th EXCEPT ![c] = IdleFrame]

\* "with processing_lock:" can be entered (main.py 212, 313)
\* a with block that does not wait for the lock
LockIgnored == TRUE

LockFree == processing_lock = 0

Active == {c \in Calls : th[c].pc # "idle"}
\* the calls that are executing the pipeline
InPipeline ==
    {c \in Calls : th[c].pc \in {"identify", "scrape", "check", "lookup",
                                 "fill", "sorting", "sorted", "print",
                                 "filter", "tag"}}

RECURSIVE SumOver(_, _)
SumOver(S, f) ==
    IF S = {} THEN 0
    ELSE LET x == CHOOSE y \in S : TRUE IN f[x] + SumOver(S \ {x}, f)

\* a further request is taken
Admitted == requests < MaxRequests

AdmittedBeside == requests < MaxBeside

\* handles the requests under way may still store
Reserved ==
    SumOver(Active, [c \in Calls |-> Len(th[c].mock_server) - th[c].k + 1])

Room(srv) == Len(data_store) + Reserved + Len(srv) <= MaxHandles

\* ------------------------------------------------------------ actions
\* A request reaches handle_availability (main.py 186-210).
ArriveAvailability(c) ==
    /\ th[c].pc = "idle"
    /\ \E t \in Targets, srv \in ServerChoices :
         /\ Room(srv)
         /\ th' = [th EXCEPT ![c] = Upd(IdleFrame,
                   [pc |-> "lock", route |-> "availability", query |-> t,
                    mock_server |-> srv, arrivedIdle |-> ~processing,
                    enteredDuring |-> InPipeline # {}])]
    /\ requests' = Min2(requests + 1, MaxRequests)
    /\ UNCHANGED <<releases, relStage, processing, processing_lock, since_search,
                   last_search_term, data_store, issued, reported, dl, pf>>

\* A request reaches handle_search and records itself in the debounce
\* register (main.py 290-297).  last_search_term is not declared global in
\* handle_search (line 293), so line 297 binds a local of the frame.
ArriveSearch(c) ==
    /\ th[c].pc = "idle"
    /\ \E q \in Targets, srv \in ServerChoices :
         /\ Room(srv)
         /\ th' = [d \in Calls |->
                   IF d = c
                   THEN Upd(IdleFrame,
                            [pc |-> "wait", route |-> "search", query |-> q,
                             mock_server |-> srv, last_search_term |-> q])
                   ELSE IF th[d].pc \in {"wait", "woke"}
                   THEN Upd(th[d], [superseded |-> th[d].query # q])
                   ELSE th[d]]
    /\ since_search' = 0
    /\ requests' = Min2(requests + 1, MaxRequests)
    /\ UNCHANGED <<releases, relStage, processing, processing_lock, last_search_term,
                   data_store, issued, reported, dl, pf>>

\* the term line 304 compares the query with: the frame's local
SearchTermSeen(c) == th[c].last_search_term

\* a loop that is left as soon as the threshold is reached
QuietReached == since_search >= QuietThreshold

\* "if time.time() - last_search_time > 1: break" (main.py 301-302)
QuietPassed == since_search > QuietThreshold

\* The debounce loop ends (main.py 298-303): under search_lock the quiet
\* period is found to have passed.
Debounce(c) ==
    /\ th[c].pc = "wait"
    /\ QuietPassed
    /\ th' = Set(c, [pc |-> "woke"])
    /\ UNCHANGED <<releases, relStage, processing, processing_lock,
                   since_search, last_search_term, requests, data_store, issued,
                   reported, dl, pf>>

\* main.py 304-313: a query that differs from the recorded term returns
\* the empty result; otherwise the handler reaches "with processing_lock:".
Proceed(c) ==
    /\ th[c].pc = "woke"
    /\ IF th[c].query # SearchTermSeen(c)
       THEN th' = Return(c)
       ELSE th' = Set(c, [pc |-> "lock", superseded |-> FALSE,
                          arrivedIdle |-> ~processing,
                          enteredDuring |-> InPipeline # {}])
    /\ UNCHANGED <<releases, relStage, processing, processing_lock,
                   since_search, last_search_term, requests, data_store, issued,
                   reported, dl, pf>>

\* time passes
Tick ==
    /\ since_search <= QuietThreshold
    /\ since_search' = since_search + 1
    /\ UNCHANGED <<releases, relStage, processing, processing_lock,
                   last_search_term, requests, data_store, th, issued, reported, dl, pf>>

\* "with processing_lock: if not processing: processing = True"
\* (main.py 212-216, 313-317); a call that finds the flag set leaves the
\* with block at once.
Enter(c) ==
    /\ th[c].pc = "lock"
    /\ LockFree
    /\ IF ~processing
       THEN /\ processing' = TRUE
            /\ processing_lock' = c
            /\ th' = Set(c, [pc |-> "identify", ran |-> TRUE])
       ELSE /\ th' = Set(c, [pc |-> "copy"])
            /\ UNCHANGED <<processing, processing_lock>>
    /\ UNCHANGED <<releases, relStage, since_search, last_search_term, requests,
                   data_store, issued, reported, dl, pf>>

\* an exception that leaves the block with the lock still held by the call
LockKept(c) == c

\* processing_lock after an exception has left "with processing_lock:"
\* (main.py 212, 313): the with statement releases it on every exit
LockOnRaise(c) == 0

\* main.py 218: identify never raises.  main.py 319: torrentio.search raises
\* when cinemeta gives no response or no match; the exception leaves the
\* with block (the lock is released) and the handler.
Identify(c) ==
    /\ th[c].pc = "identify"
    /\ \E ok \in BOOLEAN :
         IF th[c].route = "availability"
         THEN /\ th' = Set(c, [pc |-> "scrape", tg |-> identify(th[c].query, ok)])
              /\ UNCHANGED processing_lock
         ELSE IF ok
         THEN /\ th' = Set(c, [pc |-> "scrape", tg |-> search(th[c].query)])
              /\ UNCHANGED processing_lock
         ELSE /\ th' = Return(c)
              /\ processing_lock' = LockOnRaise(c)
    /\ UNCHANGED <<releases, relStage, processing, since_search,
                   last_search_term, requests, data_store, issued, reported, dl, pf>>

\* ------------------------------------------- the list while it is changed
\* realdebrid.check and type_filter change the list the global is bound to
\* in place, one statement at a time, under processing_lock; the handlers
\* copy it without the lock (main.py 226, 237).  Every statement that
\* changes the list is a step.
Least(S) == CHOOSE i \in S : \A j \in S : i <= j

Without(list, i) == SubSeq(list, 1, i - 1) \o SubSeq(list, i + 1, Len(list))

\* the calls whose pipeline is past the scrape and changes the list
Mutating ==
    {c \in Calls : th[c].pc \in {"check", "lookup", "fill", "sorting",
                                 "sorted", "print", "filter", "tag"}}

\* the release object with hash h (torrentio lists every hash once)
ObjIn(list, h) == list[CHOOSE i \in DOMAIN list : list[i].hash = h]

\* the locals of copy.deepcopy when it is not running
NotCopying == [y |-> <<>>, at |-> 0, rest |-> <<>>, cur |-> NoRef]

\* the threads that are inside deepcopy of the list the global is bound to
\* and have fetched a release
Fetched(T) == {d \in Calls : T[d].pc = "elem" /\ T[d].at > 0}

\* A release a copying thread has fetched stays alive when the list drops
\* it: the thread goes on to copy the object as it was dropped.
Holding(T, old, new) ==
    [d \in Calls |->
        IF /\ d \in Fetched(T)
           /\ T[d].cur.live
           /\ T[d].cur.obj.hash \notin {new[i].hash : i \in DOMAIN new}
        THEN Upd(T[d], [cur |-> Upd(T[d].cur,
                                    [live |-> FALSE,
                                     obj |-> ObjIn(old, T[d].cur.obj.hash)])])
        ELSE T[d]]

\* list.sort empties the versions of release r while it orders them
\* (realdebrid.py 75).  A thread that is copying r may have copied ks[d] of
\* them by then; it holds these and has the rest to come.  It reached
\* 'versions', the last key of the dict, so it began to iterate the dict
\* after that key was added.
Pausing(T, r, ks) ==
    [d \in Calls |->
        IF /\ d \in Fetched(T)
           /\ T[d].cur.live
           /\ T[d].cur.obj.hash = r.hash
           /\ ks[d] > 0
        THEN Upd(T[d], [cur |-> [live |-> FALSE, mid |-> TRUE,
                                 grown |-> FALSE,
                                 obj |-> [r EXCEPT !.versions =
                                             SubSeq(@, 1, ks[d])]]])
        ELSE T[d]]

\* list.sort has put the versions back.  A thread that held the first of
\* the versions of r as they were goes on, when go[d], with the list as it
\* is now from the index it had reached; otherwise it had found the list
\* at its end.
Resumed(T, r, go) ==
    [d \in Calls |->
        IF /\ d \in Fetched(T)
           /\ T[d].cur.mid
           /\ T[d].cur.obj.hash = r.hash
           /\ go[d]
        THEN Upd(T[d], [cur |-> Upd(T[d].cur,
                          [obj |-> [T[d].cur.obj EXCEPT !.versions =
                                       @ \o SubSeq(r.versions, Len(@) + 1,
                                                   Len(r.versions))]])])
        ELSE T[d]]

\* A statement has given the release with hash h a key.  A thread that is
\* iterating the items of that dict finds at the next step of its iterator
\* that the dict changed size; one that has fetched the dict and not begun
\* to iterate it will iterate it as it is then.
Grown(T, h) ==
    [d \in Calls |->
        IF /\ d \in Fetched(T)
           /\ T[d].cur.live \/ T[d].cur.mid
           /\ T[d].cur.obj.hash = h
        THEN Upd(T[d], [cur |-> Upd(T[d].cur, [grown |-> TRUE])])
        ELSE T[d]]

\* the position of the handler when the copy it is making is complete
AfterCopy(f) == IF f.pc = "copy" \/ f.ret = "reset" THEN "reset" ELSE "rank"

\* local_releases = releases: the name is bound to the list of the global
SameObject(list) == [list |-> list, shared |-> TRUE]

\* copy.deepcopy(list) (main.py 226, 237, 327, 338): a new list of new
\* dicts with the content of list: [list, shared], shared telling whether
\* the result is the object that was copied
deepcopy(list) == [list |-> list, shared |-> FALSE]

\* the frame when deepcopy has copied list and the handler has bound
\* local_releases to what it returned
Copied(f, list) ==
    Upd(f, Upd(NotCopying,
        [pc |-> AfterCopy(f), local_releases |-> deepcopy(list).list,
         shared |-> deepcopy(list).shared,
         snapshot |-> IF AfterCopy(f) = "reset"
                      THEN [i \in DOMAIN list |-> list[i].hash]
                      ELSE f.snapshot]))

\* The call that changed the list leaves the pipeline: nothing changes the
\* list object any more, and the next pipeline binds the global to another
\* list (main.py 220, 321).  A thread that is copying the list goes on with
\* the object it iterates, which holds what the list holds now.
Finished(T, list) ==
    [d \in Calls |->
        IF T[d].pc \in {"fetch", "elem"} /\ T[d].at > 0
        THEN Upd(T[d],
                 [at |-> 0, rest |-> SubSeq(list, T[d].at, Len(list)),
                  cur |-> IF T[d].cur.live
                          THEN Upd(T[d].cur,
                                   [live |-> FALSE,
                                    obj |-> ObjIn(list, T[d].cur.obj.hash)])
                          ELSE T[d].cur])
        ELSE T[d]]

\* the global is bound to another list: no local name is bound to it
Rebound(T) == [d \in Calls |-> Upd(T[d], [shared |-> FALSE])]

\* main.py 220, 321: releases = torrentio.scrape(type, imdb, s, e)
Scrape(c) ==
    /\ th[c].pc = "scrape"
    /\ \E answered \in BOOLEAN :
         /\ releases' = scrape(th[c].tg.imdb, answered)
         /\ th' = Rebound(Set(c, [pc |-> "check", failed |-> ~answered]))
    /\ relStage' = "scraped"
    /\ UNCHANGED <<processing, processing_lock, since_search,
                   last_search_term, requests, data_store, issued, reported, dl, pf>>

\* releases that lines 33-34 have not reached or are between
Unkeyed(list) ==
    {i \in DOMAIN list : ~(Has(list[i], "cached") /\ Has(list[i], "versions"))}

\* main.py 222, 323: realdebrid.check(releases) up to its request
\* (realdebrid.py 29-42).  A step is line 33 or line 34 for one release:
\* release['cached'] = [], then release['versions'] = [].  After the last
\* release the lookup is sent and the call waits.  No lookup is sent for an
\* empty list (line 37): check returns at once.
CheckSend(c) ==
    /\ th[c].pc = "check"
    /\ IF releases = <<>>
       THEN /\ th' = Set(c, [pc |-> "filter"])
            /\ relStage' = "checked"
            /\ UNCHANGED releases
       ELSE LET i == Least(Unkeyed(releases))
                r == releases[i]
                list == [releases EXCEPT ![i] =
                            IF Has(r, "cached")
                            THEN Upd(r, [versions |-> <<>>])
                            ELSE Upd(r, [cached |-> <<>>])]
            IN  /\ releases' = list
                /\ th' = Grown(Set(c, [pc |-> IF Unkeyed(list) = {}
                                              THEN "lookup" ELSE "check"]),
                               r.hash)
                /\ UNCHANGED relStage
    /\ UNCHANGED <<processing, processing_lock, since_search,
                   last_search_term, requests, data_store, issued, reported, dl, pf>>

\* realdebrid.py 42-49: the lookup is answered.  An answer that cannot be
\* read ends check in its except clause (line 92) with the list as it is;
\* otherwise line 49 replaces the content of the list by its cached
\* releases.
Check(c) ==
    /\ th[c].pc = "lookup"
    /\ \E response \in Responses :
         IF response = "none"
         THEN /\ th' = Set(c, [pc |-> "filter", failed |-> TRUE])
              /\ relStage' = "checked"
              /\ UNCHANGED <<releases, reported>>
         ELSE LET kept == KeepCached(releases)
              IN  /\ releases' = kept
                  /\ reported' = reported \cup
                                   {releases[i].hash : i \in
                                      {j \in DOMAIN releases :
                                          IsCached(releases[j])}}
                  /\ th' = Holding(
                             Set(c, [pc |-> IF kept = <<>> THEN "filter"
                                            ELSE "fill",
                                     response |-> response]),
                             releases, kept)
                  /\ relStage' = IF kept = <<>> THEN "checked" ELSE relStage
    /\ UNCHANGED <<processing, processing_lock, since_search,
                   last_search_term, requests, data_store, issued, dl, pf>>

\* the releases the loop of line 52 has not finished: 'cached' is still []
Unfilled(list) == {i \in DOMAIN list : list[i].cached = <<>>}

\* realdebrid.py 53-73, for the first release the loop has not finished:
\* the next grouping of the response becomes a version and is appended
\* (line 72); after the last one list.sort (line 75) begins, which empties
\* the list it sorts until it has ordered it.  A thread that is copying the
\* release has copied none, or some, of its versions by then.
CheckFill(c) ==
    /\ th[c].pc = "fill"
    /\ LET i == Least(Unfilled(releases))
           r == releases[i]
           rd == ResponseRd(r.hash, th[c].response = "malformed")
           n == Len(r.versions)
       IN  IF n < Len(rd)
           THEN /\ releases' = [releases EXCEPT ![i].versions =
                                   Append(@, MakeVersion(rd[n + 1]))]
                /\ UNCHANGED th
           ELSE /\ releases' = [releases EXCEPT ![i].versions = <<>>]
                /\ \E ks \in [Calls -> 0..(n - 1)] :
                     th' = Pausing(Set(c, [pc |-> "sorting"]), r, ks)
    /\ UNCHANGED <<relStage, processing, processing_lock, since_search,
                   last_search_term, requests, data_store, issued, reported, dl, pf>>

\* realdebrid.py 75: the key function has been called for every version
\* and the list holds its versions again, in order.  A version without
\* files raises ZeroDivisionError in the key function: the list gets its
\* versions back as they were and check ends in its except clause.  A
\* thread that had copied some of the versions before the sort goes on
\* with the list as it is now, unless it had found the list empty.
CheckSort(c) ==
    /\ th[c].pc = "sorting"
    /\ LET i == Least(Unfilled(releases))
           built == BuildVersions(releases[i], th[c].response = "malformed")
           sorted == [built EXCEPT !.versions = SortVersions(@)]
       IN  \E go \in [Calls -> BOOLEAN] :
             IF DivByZero(built)
             THEN /\ releases' = [releases EXCEPT ![i] = built]
                  /\ th' = Resumed(Set(c, [pc |-> "filter"]), built, go)
                  /\ relStage' = "checked"
             ELSE /\ releases' = [releases EXCEPT ![i] = sorted]
                  /\ th' = Resumed(Set(c, [pc |-> "sorted"]), sorted, go)
                  /\ UNCHANGED relStage
    /\ UNCHANGED <<processing, processing_lock, since_search,
                   last_search_term, requests, data_store, issued, reported, dl, pf>>

\* realdebrid.py 78-86: release.update(...) with the first version; the
\* loop of line 52 goes on, or the loop of line 89 begins
CheckPromote(c) ==
    /\ th[c].pc = "sorted"
    /\ LET i == Least(Unfilled(releases))
           list == [releases EXCEPT ![i] = Promote(releases[i])]
       IN  /\ releases' = list
           /\ th' = Grown(Set(c, [pc |-> IF Unfilled(list) = {} THEN "print"
                                         ELSE "fill"]),
                          releases[i].hash)
    /\ UNCHANGED <<relStage, processing, processing_lock, since_search,
                   last_search_term, requests, data_store, issued, reported, dl, pf>>

Unprinted(list) == {i \in DOMAIN list : ~Has(list[i], "printsize")}

\* realdebrid.py 89, common.py 282: releases.print sets 'printsize' of one
\* release; after the last one check returns
CheckPrint(c) ==
    /\ th[c].pc = "print"
    /\ LET i == Least(Unprinted(releases))
           list == [releases EXCEPT ![i] = PrintSize(releases[i])]
       IN  /\ releases' = list
           /\ th' = Grown(IF Unprinted(list) = {}
                          THEN Set(c, [pc |-> "filter"]) ELSE th,
                          releases[i].hash)
           /\ relStage' = IF Unprinted(list) = {} THEN "checked"
                          ELSE relStage
    /\ UNCHANGED <<processing, processing_lock, since_search,
                   last_search_term, requests, data_store, issued, reported, dl, pf>>

\* the versions of r the removal test rejects
BadVersions(r, tg) ==
    {v \in DOMAIN r.versions : Rejects(r.versions[v], tg.type, tg.s, tg.e)}

\* the releases the walk has something to do with: the key the test reads
\* is missing, or the test rejects the release or one of its versions
Unwalked(list, tg) ==
    {i \in DOMAIN list :
        \/ ~Has(list[i], FirstKey(tg.type))
        \/ Rejects(list[i], tg.type, tg.s, tg.e)
        \/ BadVersions(list[i], tg) # {}}

Untagged(list) == {i \in DOMAIN list : ~Has(list[i], "type")}

\* the branch of lines 374-384, whose tagging loop sits inside the walk
InnerTagging(tg) == tg.type # "movie" /\ Len(tg.s) = 1 /\ tg.e # 0

\* the walk has kept a release and the loop of lines 383-384 is under way
TagsNow(list, tg) ==
    /\ InnerTagging(tg)
    /\ Untagged(list) # {}
    /\ \E i \in DOMAIN list :
         i \notin Unwalked(list, tg) /\ \A j \in Unwalked(list, tg) : i < j

TagKind(tg) == IF tg.type = "movie" THEN "movie" ELSE "show"

\* main.py 224, 325: the walk of type_filter (common.py 330-336, 347-353,
\* 362-368, 374-384).  A step is one list.remove(release), one
\* versions.remove(version) or, in the last branch, one release['type'] =
\* "show".  set(None) (line 341) and a release without the key the test
\* reads raise: the exception leaves the with block and the handler.
TypeFilter(c) ==
    /\ th[c].pc = "filter"
    /\ LET tg == th[c].tg
           todo == Unwalked(releases, tg)
           i == Least(todo)
           r == releases[i]
       IN  IF tg.type # "movie" /\ tg.sNone
           THEN /\ th' = Finished(Return(c), releases)
                /\ processing_lock' = LockOnRaise(c)
                /\ UNCHANGED <<releases, relStage>>
           ELSE IF TagsNow(releases, tg)
           THEN /\ releases' = [releases EXCEPT ![Least(Untagged(releases))] =
                                   Tag(@, TagKind(tg))]
                /\ th' = Grown(th, releases[Least(Untagged(releases))].hash)
                /\ UNCHANGED <<processing_lock, relStage>>
           ELSE IF todo = {}
           THEN IF InnerTagging(tg)
                THEN /\ th' = Finished(Set(c, [pc |-> "copy"]), releases)
                     /\ relStage' = "filtered"
                     /\ processing_lock' = 0
                     /\ UNCHANGED releases
                ELSE /\ th' = Set(c, [pc |-> "tag"])
                     /\ UNCHANGED <<releases, processing_lock, relStage>>
           ELSE IF ~Has(r, FirstKey(tg.type))
           THEN /\ th' = Finished(Return(c), releases)
                /\ processing_lock' = LockOnRaise(c)
                /\ UNCHANGED <<releases, relStage>>
           ELSE IF Rejects(r, tg.type, tg.s, tg.e)
           THEN /\ releases' = Without(releases, i)
                /\ th' = Holding(th, releases, Without(releases, i))
                /\ UNCHANGED <<processing_lock, relStage>>
           ELSE /\ releases' = [releases EXCEPT ![i].versions =
                                   Without(@, Least(BadVersions(r, tg)))]
                /\ UNCHANGED <<th, processing_lock, relStage>>
    /\ UNCHANGED <<processing, since_search, last_search_term, requests, data_store,
                   issued, reported, dl, pf>>

\* the loop that sets release['type'] (common.py 337-338, 354-355,
\* 369-370), one release a step; then type_filter returns and the with
\* block ends
TypeFilterTag(c) ==
    /\ th[c].pc = "tag"
    /\ IF Untagged(releases) = {}
       THEN /\ th' = Finished(Set(c, [pc |-> "copy"]), releases)
            /\ relStage' = "filtered"
            /\ processing_lock' = 0
            /\ UNCHANGED releases
       ELSE /\ releases' = [releases EXCEPT ![Least(Untagged(releases))] =
                               Tag(@, TagKind(th[c].tg))]
            /\ th' = Grown(th, releases[Least(Untagged(releases))].hash)
            /\ UNCHANGED <<relStage, processing_lock>>
    /\ UNCHANGED <<processing, since_search, last_search_term, requests, data_store,
                   issued, reported, dl, pf>>

HashesOf(list) == [i \in DOMAIN list |-> list[i].hash]

\* ---------------------------------------------------------- copy.deepcopy
\* main.py 226, 237, 327, 338: copy.deepcopy(releases) while no thread is
\* changing the list the global is bound to.
Copy(c) ==
    /\ th[c].pc \in {"copy", "recopy"}
    /\ Mutating = {}
    /\ th' = [th EXCEPT ![c] = Upd(Copied(th[c], releases),
                                   [localStage |-> relStage])]
    /\ UNCHANGED <<releases, relStage, processing, processing_lock,
                   since_search, last_search_term, requests, data_store, issued,
                   reported, dl, pf>>

\* copy.deepcopy(releases) while another thread is changing the list, or
\* has been: the list iterator takes the release at its index, or finds the
\* list at its end and deepcopy returns.  Of a list that no thread changes
\* any more it copies the rest.
CopyFetch(c) ==
    /\ IF th[c].pc = "fetch" THEN TRUE
       ELSE th[c].pc \in {"copy", "recopy"} /\ Mutating # {}
    /\ LET first == th[c].pc # "fetch"
           f == IF first
                THEN Upd(th[c], [at |-> 1, y |-> <<>>,
                                 localStage |-> relStage,
                                 ret |-> AfterCopy(th[c])])
                ELSE th[c]
       IN  IF f.at = 0
           THEN th' = [th EXCEPT ![c] = Copied(f, f.y \o f.rest)]
           ELSE IF f.at > Len(releases)
           THEN th' = [th EXCEPT ![c] = Copied(f, f.y)]
           ELSE th' = [th EXCEPT ![c] = Upd(f,
                          [pc |-> "elem", at |-> f.at + 1,
                           cur |-> Upd(NoRef,
                                       [live |-> TRUE,
                                        obj |-> [hash |->
                                                   releases[f.at].hash]])])]
    /\ UNCHANGED <<releases, relStage, processing, processing_lock,
                   since_search, last_search_term, requests, data_store, issued,
                   reported, dl, pf>>

\* the release object deepcopy is copying
Object(c) ==
    IF th[c].cur.live THEN ObjIn(releases, th[c].cur.obj.hash)
    ELSE th[c].cur.obj

\* deepcopy of the fetched release: the dict and what it holds are copied.
\* When a key was added to the dict while its items were iterated, the
\* next step of the iterator raises RuntimeError("dictionary changed size
\* during iteration"), which leaves the handler (lines 226, 237 are
\* outside every try).  A thread that had copied some of the items when
\* the key was added cannot but raise.
CopyElem(c) ==
    /\ th[c].pc = "elem"
    /\ \/ /\ ~(th[c].cur.mid /\ th[c].cur.grown)
          /\ th' = Set(c, [pc |-> "fetch", cur |-> NoRef,
                           y |-> Append(th[c].y, Object(c))])
       \/ /\ th[c].cur.grown
          /\ th' = Return(c)
    /\ UNCHANGED <<releases, relStage, processing, processing_lock,
                   since_search, last_search_term, requests, data_store, issued,
                   reported, dl, pf>>

\* main.py 228-230, 329-331: after the sleep, processing = False; the loop
\* over mock_server begins, with several servers by copying the global
\* again (lines 236-237, 337-338)
Reset(c) ==
    /\ th[c].pc = "reset"
    /\ processing' = FALSE
    /\ th' = Set(c, [pc |-> IF Len(th[c].mock_server) > 1 THEN "recopy"
                            ELSE "rank",
                     k |-> 1, ret |-> "rank"])
    /\ UNCHANGED <<releases, relStage, processing_lock, since_search,
                   last_search_term, requests, data_store, issued, reported, dl, pf>>

\* the list a turn of the loop hands to sort (main.py 239, 340)
RankSource(c) == th[c].local_releases

\* One turn of the loop over mock_server (main.py 239-257, 340-374): the
\* list is ranked and stored under a fresh uuid4.  After the last server
\* the handler returns.  sort orders in place the list it is handed when
\* no filter has rebuilt it (common.py 401-409): that list is the one the
\* global is bound to only when local_releases is.
Rank(c) ==
    /\ th[c].pc = "rank"
    /\ LET f == th[c]
           stage == f.localStage
           res == sort(Servers[f.mock_server[f.k]], RankSource(c),
                       stage = "none")
       IN  IF res.raised
           THEN /\ th' = Return(c)
                /\ UNCHANGED <<data_store, issued>>
           ELSE /\ data_store' = Append(data_store, res.list)
                /\ issued' = Append(issued,
                       [hashes |-> HashesOf(res.list), query |-> f.query,
                        stage |-> stage, during |-> f.enteredDuring,
                        failed |-> f.failed,
                        server |-> f.mock_server[f.k]])
                /\ IF f.k = Len(f.mock_server)
                   THEN th' = Return(c)
                   ELSE th' = Set(c, [pc |-> "recopy", k |-> f.k + 1])
    /\ releases' = LET f == th[c]
                       srv == Servers[f.mock_server[f.k]]
                       res == sort(srv, RankSource(c), f.localStage = "none")
                   IN  IF f.shared /\ srv.FILTERS = <<>> /\ ~res.raised
                       THEN res.list ELSE releases
    /\ UNCHANGED <<relStage, processing, processing_lock,
                   since_search, last_search_term, requests, reported, dl, pf>>

\* ------------------------------------------------------ handle_download
\* a slice that starts one element late
SliceStartLate(n, num) ==
    IF num >= 0 THEN Min2(num + 1, n) ELSE Max2(n + num, 0)

\* 0-based index at which the Python slice list[num:] starts
SliceStart(n, num) ==
    IF num >= 0 THEN Min2(num, n) ELSE Max2(n + num, 0)

\* a loop over the whole stored list, whatever the offset
SliceWhole(list, num) == list

\* releases[int(num):] (main.py 413)
SliceFrom(list, num) ==
    SubSeq(list, SliceStart(Len(list), num) + 1, Len(list))

\* The ways realdebrid.download(release) can return True (realdebrid.py
\* 98-168): "version" when some version's files were selected and all their
\* links came back (lines 120-133), "stale" when no version succeeded but
\* the release already carries a 'download' from an earlier request and the
\* unrestrict requests went through (lines 141-164).
DownloadWays(r) ==
    {w \in {"version", "stale"} :
        IF w = "version"
        THEN \E v \in DOMAIN r.versions : Len(r.versions[v].files) > 0
        ELSE Has(r, "download") /\ Len(r.versions) > 0}

\* realdebrid.py 137-138: the release when torrents/info has listed a link
\* for every selected file
WithLinks(r) == Upd(r, [title |-> "realdebrid", download |-> r.hash])

\* realdebrid.py 162: release['files'] = version['files'], version being
\* the loop variable
WithFiles(r, v) == Upd(r, [files |-> r.versions[v].files])

DownloadVersions(r, w) ==
    IF w = "version"
    THEN {v \in DOMAIN r.versions : Len(r.versions[v].files) > 0}
    ELSE {Len(r.versions)}

Nums == (0 - 1)..MaxCands
Ids == 1..(MaxHandles + 1)

\* position in data_store[dl.id] of the release the loop of line 413 is at
DownloadPos == SliceStart(dl.len, dl.num) + Len(dl.attempted)

\* GET /download/<id>/<num> arrives (main.py 399-414).  data_store[id]
\* raises KeyError for an id never stored; with an empty slice the loop
\* variable of line 416 does not exist (UnboundLocalError).  Otherwise
\* realdebrid.download is called with the first release of the slice and
\* waits for real-debrid.  The handler takes no lock.
DownloadStart ==
    /\ dl.at = "idle"
    /\ \E id \in Ids, num \in Nums :
         IF id \notin DOMAIN data_store
         THEN dl' = [NoDownload EXCEPT !.outcome = "KeyError", !.id = id,
                                       !.num = num]
         ELSE LET list == data_store[id]
                  slice == SliceFrom(list, num)
              IN  IF slice = <<>>
                  THEN dl' = [NoDownload EXCEPT
                                !.outcome = "UnboundLocalError", !.id = id,
                                !.num = num, !.known = TRUE,
                                !.len = Len(list)]
                  ELSE dl' = [NoDownload EXCEPT
                                !.id = id, !.num = num, !.known = TRUE,
                                !.len = Len(list),
                                !.attempted = <<slice[1].hash>>,
                                !.at = "download"]
    /\ UNCHANGED <<releases, relStage, processing, processing_lock,
                   since_search, last_search_term, requests, data_store, th, issued,
                   reported, pf>>

\* realdebrid.download(release) has had its answers (realdebrid.py
\* 108-151).  It returns False and the loop of main.py 413 goes on with the
\* next release, or ends; or a version's links all came back and the stored
\* release gets title and download (lines 137-138); or no version did and
\* the release carries a download of an earlier request (line 153).
DownloadAnswer ==
    /\ dl.at = "download"
    /\ LET r == data_store[dl.id][DownloadPos]
       IN  \/ /\ dl' = IF DownloadPos < dl.len
                        THEN [dl EXCEPT !.attempted = Append(@,
                                 data_store[dl.id][DownloadPos + 1].hash)]
                        ELSE [dl EXCEPT !.at = "refresh"]
              /\ UNCHANGED data_store
           \/ \E w \in DownloadWays(r) : \E v \in DownloadVersions(r, w) :
                LET stored == IF w = "version"
                              THEN [data_store EXCEPT
                                      ![dl.id][DownloadPos] = WithLinks(r)]
                              ELSE data_store
                IN  /\ data_store' = stored
                    /\ dl' = [dl EXCEPT !.at = "links", !.v = v,
                                 !.changed = @ \/ stored # data_store]
    /\ UNCHANGED <<releases, relStage, processing, processing_lock,
                   since_search, last_search_term, requests, th, issued, reported, pf>>

\* realdebrid.py 153-163: the unrestrict/link requests have been made;
\* release['files'] is set and download returns True.
DownloadLinks ==
    /\ dl.at = "links"
    /\ LET r == data_store[dl.id][DownloadPos]
           stored == [data_store EXCEPT
                        ![dl.id][DownloadPos] = WithFiles(r, dl.v)]
       IN  /\ data_store' = stored
           /\ dl' = [dl EXCEPT !.at = "refresh", !.ok = TRUE,
                        !.changed = @ \/ stored # data_store]
    /\ UNCHANGED <<releases, relStage, processing, processing_lock,
                   since_search, last_search_term, requests, th, issued, reported, pf>>

\* main.py 416-419: plex.library.refresh(release) with the loop variable,
\* whether the loop was left by break or ran out; then the handler returns.
DownloadRefresh ==
    /\ dl.at = "refresh"
    /\ dl' = [dl EXCEPT !.at = "idle", !.outcome = "returned",
                 !.refreshed = data_store[dl.id][DownloadPos].hash]
    /\ UNCHANGED <<releases, relStage, processing, processing_lock,
                   since_search, last_search_term, requests, data_store, th, issued,
                   reported, pf>>

\* The server under requests to handle_availability and handle_search.
Next ==
    \/ \E c \in Calls : Admitted /\ ArriveAvailability(c)
    \/ \E c \in Calls : Admitted /\ ArriveSearch(c)
    \/ \E c \in Calls : Debounce(c)
    \/ \E c \in Calls : Proceed(c)
    \/ Tick
    \/ \E c \in Calls : Enter(c)
    \/ \E c \in Calls : Identify(c)
    \/ \E c \in Calls : Scrape(c)
    \/ \E c \in Calls : CheckSend(c)
    \/ \E c \in Calls : Check(c)
    \/ \E c \in Calls : CheckFill(c)
    \/ \E c \in Calls : CheckSort(c)
    \/ \E c \in Calls : CheckPromote(c)
    \/ \E c \in Calls : CheckPrint(c)
    \/ \E c \in Calls : TypeFilter(c)
    \/ \E c \in Calls : TypeFilterTag(c)
    \/ \E c \in Calls : Copy(c)
    \/ \E c \in Calls : CopyFetch(c)
    \/ \E c \in Calls : CopyElem(c)
    \/ \E c \in Calls : Reset(c)
    \/ \E c \in Calls : Rank(c)

Spec == Init /\ [][Next]_vars

\* The handle ledger and its consumer: the requests of one client, served
\* one after the other, and a download request at a time that runs beside
\* them on a thread of its own.
Worker == CHOOSE c \in Calls : \A d \in Calls : c <= d

NextLedger ==
    \/ Admitted /\ ArriveAvailability(Worker)
    \/ Admitted /\ ArriveSearch(Worker)
    \/ Debounce(Worker)
    \/ Proceed(Worker)
    \/ Tick
    \/ Enter(Worker)
    \/ Identify(Worker)
    \/ Scrape(Worker)
    \/ CheckSend(Worker)
    \/ Check(Worker)
    \/ CheckFill(Worker)
    \/ CheckSort(Worker)
    \/ CheckPromote(Worker)
    \/ CheckPrint(Worker)
    \/ TypeFilter(Worker)
    \/ TypeFilterTag(Worker)
    \/ Copy(Worker)
    \/ Reset(Worker)
    \/ Rank(Worker)
    \/ DownloadStart
    \/ DownloadAnswer
    \/ DownloadLinks
    \/ DownloadRefresh

SpecLedger == Init /\ [][NextLedger]_vars
\* ------------------------------------------- the coalescer under fairness
\* the first target asked of the first server
OneProfile(c) == th[c].query = 1 /\ th[c].mock_server = <<1>>

\* The server under requests to handle_availability, searches for one
\* profile, and a client that is served by one thread and asks for the
\* availability of one profile again and again.
NextFair ==
    \/ ArriveAvailability(Worker) /\ OneProfile(Worker)'
    \/ \E c \in Calls : AdmittedBeside /\ ArriveAvailability(c)
    \/ \E c \in Calls : AdmittedBeside /\ ArriveSearch(c) /\ OneProfile(c)'
    \/ \E c \in Calls : Debounce(c)
    \/ \E c \in Calls : Proceed(c)
    \/ Tick
    \/ \E c \in Calls : Enter(c)
    \/ \E c \in Calls : Identify(c)
    \/ \E c \in Calls : Scrape(c)
    \/ \E c \in Calls : CheckSend(c)
    \/ \E c \in Calls : Check(c)
    \/ \E c \in Calls : CheckFill(c)
    \/ \E c \in Calls : CheckSort(c)
    \/ \E c \in Calls : CheckPromote(c)
    \/ \E c \in Calls : CheckPrint(c)
    \/ \E c \in Calls : TypeFilter(c)
    \/ \E c \in Calls : TypeFilterTag(c)
    \/ \E c \in Calls : Copy(c)
    \/ \E c \in Calls : CopyFetch(c)
    \/ \E c \in Calls : CopyElem(c)
    \/ \E c \in Calls : Reset(c)
    \/ \E c \in Calls : Rank(c)

\* Scheduling: every external call returns and every thread keeps running,
\* so a handler does not stay for ever at a position it can leave; a thread
\* blocked on processing_lock gets it when the lock stays free.  Which of
\* several waiting threads gets a lock that is released, threading.Lock
\* leaves open.  A step of a handler is possible exactly at its positions, and
\* the steps that stay at one position (a statement of a loop over the
\* list) are finitely many in a row, so the weak fairness of each step is
\* written out as leaving the position again and again.
Running == {"woke", "identify", "scrape", "check", "lookup", "fill", "sorting",
            "sorted", "print", "filter", "tag", "copy", "recopy", "fetch",
            "elem", "reset", "rank"}

Fairness ==
    \A c \in Calls :
        /\ WF_vars(Enter(c))
        /\ \A p \in Running : []<>(th[c].pc # p)

SpecFair == Init /\ [][NextFair]_vars /\ Fairness

\* --------------------------------------------- releases.sort on its own
\* longest list handed to a function applied on its own
MaxList == 3

\* Releases as sort reads them: the attributes the FILTERS and RULES of
\* Servers name, and 'episodes'.  The last one was never enriched by check.
SortPool ==
    { [hash |-> 1, resolution |-> 1080, size |-> 1, seeders |-> 1, episodes |-> 1],
      [hash |-> 2, resolution |-> 1080, size |-> 2, seeders |-> 1, episodes |-> 2],
      [hash |-> 3, resolution |-> 1080, size |-> 3, seeders |-> 0, episodes |-> 1],
      [hash |-> 4, resolution |-> 2160, size |-> 2, seeders |-> 1, episodes |-> 1],
      [hash |-> 5, resolution |-> 720, size |-> 2, seeders |-> 0] }

\* the lists of up to MaxList different releases of P
ListsOf(P) ==
    UNION {{l \in [1..n -> P] : \A i, j \in 1..n : i # j => l[i] # l[j]} :
           n \in 0..MaxList}

NotRun == [list |-> <<>>, raised |-> FALSE]

InitSort ==
    /\ Loaded
    /\ \E l \in ListsOf(SortPool), k \in DOMAIN Servers :
         pf = [fn |-> "sort", list |-> l, server |-> k, runs |-> 0,
               out1 |-> NotRun, out2 |-> NotRun]

\* common.releases.sort(server, list)
SortOnce ==
    /\ pf.fn = "sort" /\ pf.runs = 0
    /\ pf' = [pf EXCEPT !.runs = 1,
                        !.out1 = sort(Servers[pf.server], pf.list, FALSE)]
    /\ UNCHANGED <<releases, relStage, processing, processing_lock,
                   since_search, last_search_term, requests, data_store, th, issued,
                   reported, dl>>

\* The same call once more, on an equal list.  Of this run only what
\* list.sort promises is taken: it returns any of the results that leaves
\* open.
SortAgain ==
    /\ pf.fn = "sort" /\ pf.runs = 1
    /\ \E out \in SortOutcomes(Servers[pf.server], pf.list) :
         pf' = [pf EXCEPT !.runs = 2, !.out2 = out]
    /\ UNCHANGED <<releases, relStage, processing, processing_lock,
                   since_search, last_search_term, requests, data_store, th, issued,
                   reported, dl>>

NextSort == SortOnce \/ SortAgain

SpecSort == InitSort /\ [][NextSort]_vars

\* ------------------------------------- releases.type_filter on its own
\* groupings of files as real-debrid reports them
GMovie == <<File(1, TRUE, FALSE, 0, 0), File(2, FALSE, TRUE, 0, 0)>>
GSubs == <<File(3, FALSE, TRUE, 0, 0)>>
GEpisode == <<File(1, TRUE, FALSE, 1, 1)>>
GSeason == <<File(1, TRUE, FALSE, 1, 1), File(2, TRUE, FALSE, 1, 2)>>
GTwoSeasons == <<File(1, TRUE, FALSE, 1, 1), File(2, TRUE, FALSE, 2, 1)>>
GThreeSeasons ==
    <<File(1, TRUE, FALSE, 1, 1), File(2, TRUE, FALSE, 2, 1),
      File(3, TRUE, FALSE, 3, 1)>>

\* the release with hash h as check leaves it when the availability
\* response lists the groupings rd for it (realdebrid.py 52-86)
Enriched(h, rd) ==
    Promote([CheckInit(Stream(1, h)) EXCEPT
               !.versions = [g \in DOMAIN rd |-> MakeVersion(rd[g])]])

FilterPool ==
    { Enriched(1, <<GSubs, GMovie>>),
      Enriched(2, <<GSubs>>),
      Enriched(3, <<GEpisode, GSeason>>),
      Enriched(4, <<GEpisode>>),
      Enriched(5, <<GEpisode, GTwoSeasons>>),
      Enriched(6, <<GSeason, GThreeSeasons>>) }

\* what identify or search may ask for: a movie, or the seasons s of a show
\* with or without an episode; asked says whether an episode was asked
\* for, e is its number
Requests ==
    {[type |-> "movie", s |-> <<>>, e |-> 0, asked |-> FALSE]}
    \cup {[type |-> "show", s |-> s, e |-> 0, asked |-> FALSE] :
              s \in {<<1>>, <<2>>, <<1, 2>>, <<1, 2, 3>>}}
    \cup {[type |-> "show", s |-> s, e |-> e, asked |-> TRUE] :
              s \in {<<1>>, <<2>>}, e \in 0..2}

\* the arguments (type, s, e) of type_filter for a request: an episode that
\* was not asked for is None
TargetFor(rq) ==
    [type |-> rq.type, imdb |-> 1, s |-> rq.s, sNone |-> FALSE, e |-> rq.e]

InitFilter ==
    /\ Loaded
    /\ \E l \in ListsOf(FilterPool), rq \in Requests :
         pf = [fn |-> "type_filter", list |-> l, rq |-> rq, runs |-> 0,
               out |-> NotRun]

\* common.releases.type_filter(list, type, s, e)
FilterOnce ==
    /\ pf.fn = "type_filter" /\ pf.runs = 0
    /\ pf' = [pf EXCEPT !.runs = 1,
                        !.out = type_filter(pf.list, TargetFor(pf.rq))]
    /\ UNCHANGED <<releases, relStage, processing, processing_lock,
                   since_search, last_search_term, requests, data_store, th, issued,
                   reported, dl>>

NextFilter == FilterOnce

SpecFilter == InitFilter /\ [][NextFilter]_vars

\* ------------------------------------------ one resolution on its own
\* infoHash strings: the hex digits (a number) in lower or upper case;
\* str.lower (torrentio.py 68) forgets the case
Lower(infoHash) == infoHash.hex

\* entries of response['streams']: the same torrent may be listed more than
\* once, by another provider or in another case; real-debrid does not hold
\* the torrent with hex 1 and holds no video of the unlisted one; the last
\* entry has no 'infoHash'
RawPool ==
    { [title |-> [resolution |-> 1080, size |-> 1, seeders |-> 1],
       infoHash |-> [hex |-> 2, upper |-> FALSE]],
      [title |-> [resolution |-> 2160, size |-> 2, seeders |-> 0],
       infoHash |-> [hex |-> 2, upper |-> TRUE]],
      [title |-> [resolution |-> 1080, size |-> 2, seeders |-> 2],
       infoHash |-> [hex |-> 4, upper |-> FALSE]],
      [title |-> [resolution |-> 1080, size |-> 3, seeders |-> 1],
       infoHash |-> [hex |-> 1, upper |-> FALSE]],
      [title |-> [resolution |-> 720, size |-> 2, seeders |-> 1],
       infoHash |-> [hex |-> Unlisted, upper |-> FALSE]],
      [title |-> [resolution |-> 720, size |-> 1, seeders |-> 0]] }

\* torrentio.py 55-85: an entry whose fields cannot be read raises and is
\* skipped (lines 86-89)
EntryRaises(result) == ~Has(result, "title") \/ ~Has(result, "infoHash")

ScrapeEntry(result) ==
    [title |-> "torrentio", resolution |-> result.title.resolution,
     size |-> result.title.size, seeders |-> result.title.seeders,
     hash |-> Lower(result.infoHash)]

\* a loop without the inner try: the first entry that raises ends it in
\* the outer except clause (line 90) with the releases read so far
ScrapeUntilRaise(streams) ==
    LET bad == {i \in DOMAIN streams : EntryRaises(streams[i])}
        stop == IF bad = {} THEN Len(streams) + 1
                ELSE CHOOSE i \in bad : \A j \in bad : i <= j
    IN  [i \in 1..(stop - 1) |-> ScrapeEntry(streams[i])]

\* the loop of torrentio.py 53-89 over response['streams']
ScrapeStreams(streams) ==
    LET Reads(result) == ~EntryRaises(result)
        read == SelectSeq(streams, Reads)
    IN  [i \in DOMAIN read |-> ScrapeEntry(read[i])]

\* the steps of a resolution for a movie, in order
Steps == <<"scrape", "check", "type_filter", "sort">>

MovieTarget ==
    [type |-> "movie", imdb |-> 1, s |-> <<>>, sNone |-> TRUE, e |-> 0]

InitResolve ==
    /\ Loaded
    /\ \E l \in ListsOf(RawPool) :
         pf = [fn |-> "resolve", streams |-> l, runs |-> 0,
               out |-> NotRun]

\* the next step of main.py 220-239 on the list the step before left
ResolveStep ==
    /\ pf.fn = "resolve" /\ pf.runs < Len(Steps) /\ ~pf.out.raised
    /\ \E response \in Responses, k \in DOMAIN Servers :
         LET step == Steps[pf.runs + 1]
             out == CASE step = "scrape" ->
                           [list |-> ScrapeStreams(pf.streams),
                            raised |-> FALSE]
                      [] step = "check" ->
                           [list |-> check(pf.out.list, response),
                            raised |-> FALSE]
                      [] step = "type_filter" ->
                           type_filter(pf.out.list, MovieTarget)
                      [] step = "sort" ->
                           sort(Servers[k], pf.out.list, FALSE)
         IN  pf' = [pf EXCEPT !.runs = pf.runs + 1, !.out = out]
    /\ UNCHANGED <<releases, relStage, processing, processing_lock,
                   since_search, last_search_term, requests, data_store, th, issued,
                   reported, dl>>

NextResolve == ResolveStep

SpecResolve == InitResolve /\ [][NextResolve]_vars

\* ------------------------------------------- session.request on its own
\* the sessions of the program: realdebrid.py 13 and torrentio.py 14
\* (plex.py 16 and main.py 27 use the retry codes of torrentio)
Sessions ==
    [realdebrid |-> [RETRY_CODES |-> {"429", "503", "404", "400", "500"}],
     torrentio  |-> [RETRY_CODES |-> {"429", "503"}]]

Methods == {"GET", "POST", "DELETE"}

\* what one attempt (common.py 80) can end in: a response with a status
\* code, or requests.RequestException (a timeout after DEFAULT_TIMEOUT
\* included)
Outcomes == {"200", "404", "429", "503", "RequestException"}

\* lines 87-90 and 98-101: the pause after a failed attempt
Sleeps(method) == IF method \in {"GET", "POST"} THEN 1 ELSE 0

\* a test that takes every status but 200 for a retryable one
NotOk(k, status) == status # "200"

\* line 84: response.status_code in self.RETRY_CODES
InRetryCodes(k, status) == status \in Sessions[k].RETRY_CODES

\* retries after an attempt that raised, in a variant that counts only
\* the attempts answered with a retryable status
RetriesKept(retries) == retries

\* line 97
RetriesAfterException(retries) == retries + 1

\* the attempts of the model stop after this many, whatever retries says
AttemptCap == MAX_RETRIES + 1

\* lines 66-77: a call of request(method, url) on one of the sessions;
\* early: the last request of the session was less than the rate limit ago
InitRequest ==
    /\ Loaded
    /\ \E k \in DOMAIN Sessions, method \in Methods, early \in BOOLEAN :
         pf = [fn |-> "request", session |-> k, method |-> method,
               retries |-> 0, attempts |-> <<>>,
               slept |-> IF early THEN Sleeps(method) ELSE 0,
               returned |-> "running"]

\* one pass of the while loop, lines 78-101
RequestAttempt ==
    /\ pf.fn = "request" /\ pf.returned = "running"
    /\ pf.retries < MAX_RETRIES
    /\ Len(pf.attempts) < AttemptCap
    /\ \E o \in Outcomes :
         LET tried == [pf EXCEPT !.attempts = Append(pf.attempts, o)]
         IN  pf' = IF o = "RequestException"
                   THEN [tried EXCEPT
                           !.retries = RetriesAfterException(pf.retries),
                           !.slept = pf.slept + Sleeps(pf.method)]
                   ELSE IF InRetryCodes(pf.session, o)
                   THEN [tried EXCEPT
                           !.retries = pf.retries + 1,
                           !.slept = pf.slept + Sleeps(pf.method)]
                   ELSE [tried EXCEPT !.returned = o]
    /\ UNCHANGED <<releases, relStage, processing, processing_lock,
                   since_search, last_search_term, requests, data_store, th, issued,
                   reported, dl>>

\* lines 103-104: the loop is left without a response
RequestGiveUp ==
    /\ pf.fn = "request" /\ pf.returned = "running"
    /\ ~(pf.retries < MAX_RETRIES)
    /\ pf' = [pf EXCEPT !.returned = "None"]
    /\ UNCHANGED <<releases, relStage, processing, processing_lock,
                   since_search, last_search_term, requests, data_store, th, issued,
                   reported, dl>>

NextRequest == RequestAttempt \/ RequestGiveUp

\* every attempt ends (it has a timeout, line 68) and every pause is
\* finite, so a call that can take a step takes it
SpecRequest == InitRequest /\ [][NextRequest]_vars /\ WF_vars(NextRequest)

\* --------------------------------- one version of realdebrid.check alone
\* File names, by what the patterns of common.match (common.py 140-154)
\* find in them: the extension at the end, "sample" anywhere, and the
\* numbers after the season and the episode token (0: no token)
FileNames ==
    { [ext |-> "video", sample |-> FALSE, season |-> 0, episode |-> 0],
      [ext |-> "video", sample |-> TRUE, season |-> 0, episode |-> 0],
      [ext |-> "video", sample |-> FALSE, season |-> 1, episode |-> 1],
      [ext |-> "video", sample |-> FALSE, season |-> 1, episode |-> 2],
      [ext |-> "video", sample |-> TRUE, season |-> 1, episode |-> 2],
      [ext |-> "video", sample |-> FALSE, season |-> 2, episode |-> 1],
      [ext |-> "subtitle", sample |-> TRUE, season |-> 2, episode |-> 1],
      [ext |-> "subtitle", sample |-> FALSE, season |-> 0, episode |-> 0],
      [ext |-> "other", sample |-> FALSE, season |-> 0, episode |-> 0] }

\* a classification by the extension alone
VideoByExtension(filename) == filename.ext = "video"

\* match.video (common.py 207)
MatchVideo(filename) == filename.ext = "video" /\ ~filename.sample
\* match.subtitle (common.py 220)
MatchSubtitle(filename) == filename.ext = "subtitle"
\* match.season (common.py 233-234), None as 0
MatchSeason(filename) == filename.season
\* match.episode (common.py 247-248), None as 0
MatchEpisode(filename) == filename.episode

\* realdebrid.py 56-64: the file dictionary of one reported file
FileEntry(id, filename) ==
    [name |-> filename, id |-> id, size |-> 1,
     video |-> MatchVideo(filename), subtitle |-> MatchSubtitle(filename),
     season |-> MatchSeason(filename), episode |-> MatchEpisode(filename)]

\* realdebrid.py 54-72: the version of one grouping of file names
VersionOf(names) == MakeVersion([i \in DOMAIN names |-> FileEntry(i, names[i])])

InitVersion ==
    /\ Loaded
    /\ \E l \in ListsOf(FileNames) :
         pf = [fn |-> "version", names |-> l, runs |-> 0,
               out |-> MakeVersion(<<>>)]

BuildVersion ==
    /\ pf.fn = "version" /\ pf.runs = 0
    /\ pf' = [pf EXCEPT !.runs = 1, !.out = VersionOf(pf.names)]
    /\ UNCHANGED <<releases, relStage, processing, processing_lock,
                   since_search, last_search_term, requests, data_store, th, issued,
                   reported, dl>>

NextVersion == BuildVersion

SpecVersion == InitVersion /\ [][NextVersion]_vars

\* ------------------------------------- the title of one stream on its own
\* longest title, in symbols, handed to the language pattern
MaxTitle == 4
\* most digits before, and after, the point of a size
MaxDigits == 2

\* the symbols of a title that matter to line 58-59: three regional
\* indicator symbols and one that is none
Indicators == {"G", "B", "X"}
Symbols == Indicators \cup {"-"}

\* match.flag_to_primary_language (common.py 157-194), the entries for the
\* flags that the indicators above can form: GG (line 176), GB (line 184),
\* BG (line 164), BB (line 161); no flag with X is a key
flag_to_primary_language ==
    [f \in {<<"G", "G">>, <<"G", "B">>, <<"B", "G">>, <<"B", "B">>} |->
        IF f = <<"B", "G">> THEN "BG" ELSE "EN"]

RECURSIVE FindFlags(_)
\* regex.findall of two regional indicator symbols in a row (lines 58-59):
\* the matches from left to right, none overlapping another
FindFlags(title) ==
    IF Len(title) < 2 THEN <<>>
    ELSE IF title[1] \in Indicators /\ title[2] \in Indicators
    THEN <<[flag |-> SubSeq(title, 1, 2)]>>
             \o FindFlags(SubSeq(title, 3, Len(title)))
    ELSE FindFlags(Tail(title))

\* a translation that puts the default language for a flag not in the table
PrimaryOrDefault(language) ==
    IF Has(language, "flag") /\ language.flag \in DOMAIN flag_to_primary_language
    THEN [code |-> flag_to_primary_language[language.flag]]
    ELSE [code |-> "EN"]

\* lines 63-64: a language that is a key of the table is replaced
PrimaryLanguage(language) ==
    IF Has(language, "flag") /\ language.flag \in DOMAIN flag_to_primary_language
    THEN [code |-> flag_to_primary_language[language.flag]]
    ELSE language

\* lines 57-64
Languages(title) ==
    LET matches == FindFlags(title)
        languages == IF matches # <<>> THEN matches ELSE <<[code |-> "EN"]>>
    IN  [i \in DOMAIN languages |-> PrimaryLanguage(languages[i])]

\* the characters a size is written with
Digits == {"0", "5"}
DigitValue(c) == IF c = "5" THEN 5 ELSE 0

RECURSIVE SeqsOf(_, _)
\* the sequences over S of length 1..n
SeqsOf(S, n) ==
    IF n = 0 THEN {}
    ELSE LET shorter == SeqsOf(S, n - 1)
         IN  {<<x>> : x \in S} \cup shorter
                 \cup {Append(q, x) : q \in shorter, x \in S}

\* decimal numbers: digits, or digits, a point and digits
Numerals ==
    SeqsOf(Digits, MaxDigits)
        \cup {a \o <<".">> \o b : a \in SeqsOf(Digits, MaxDigits),
                                 b \in SeqsOf(Digits, MaxDigits)}

\* the part of a title line 66 reads: whether the size marker is there, the
\* characters between the marker and the unit, and the unit
SizeTexts == [marker : BOOLEAN, chars : Numerals, unit : {"GB", "MB"}]

AllDigits(chars) == \A i \in DOMAIN chars : chars[i] \in Digits

\* [0-9]+.?[0-9]+ matches all of chars: digits, at most one character of
\* any kind, digits
MatchesNumber(chars) ==
    \E i \in 1..Len(chars), j \in 0..1 :
        /\ i + j < Len(chars)
        /\ AllDigits(SubSeq(chars, 1, i))
        /\ AllDigits(SubSeq(chars, i + j + 1, Len(chars)))

RECURSIVE IntOf(_)
IntOf(digits) ==
    IF digits = <<>> THEN 0
    ELSE 10 * IntOf(SubSeq(digits, 1, Len(digits) - 1))
             + DigitValue(digits[Len(digits)])

RECURSIVE Pow10(_)
Pow10(n) == IF n = 0 THEN 1 ELSE 10 * Pow10(n - 1)

\* float(chars), as the number of 1/10^MaxDigits it is
Float(chars) ==
    LET points == {i \in DOMAIN chars : chars[i] = "."}
        p == IF points = {} THEN Len(chars) + 1 ELSE CHOOSE i \in points : TRUE
        whole == SubSeq(chars, 1, p - 1)
        frac == SubSeq(chars, p + 1, Len(chars))
    IN  IntOf(whole) * Pow10(MaxDigits)
            + IntOf(frac) * Pow10(MaxDigits - Len(frac))

\* line 66: size in GB as [parts, per]: parts / 10^MaxDigits / per
Size(text) ==
    IF text.marker /\ MatchesNumber(text.chars)
    THEN [parts |-> Float(text.chars),
          per |-> IF text.unit = "GB" THEN 1 ELSE 1000]
    ELSE [parts |-> 0, per |-> 1]

InitTitle ==
    /\ Loaded
    /\ \/ \E t \in SeqsOf(Symbols, MaxTitle) \cup {<<>>} :
            pf = [fn |-> "languages", title |-> t, runs |-> 0, out |-> <<>>]
       \/ \E t \in SizeTexts :
            pf = [fn |-> "size", title |-> t, runs |-> 0,
                  out |-> [parts |-> 0, per |-> 1]]

ParseLanguages ==
    /\ pf.fn = "languages" /\ pf.runs = 0
    /\ pf' = [pf EXCEPT !.runs = 1, !.out = Languages(pf.title)]
    /\ UNCHANGED <<releases, relStage, processing, processing_lock,
                   since_search, last_search_term, requests, data_store, th, issued,
                   reported, dl>>

ParseSize ==
    /\ pf.fn = "size" /\ pf.runs = 0
    /\ pf' = [pf EXCEPT !.runs = 1, !.out = Size(pf.title)]
    /\ UNCHANGED <<releases, relStage, processing, processing_lock,
                   since_search, last_search_term, requests, data_store, th, issued,
                   reported, dl>>

NextTitle == ParseLanguages \/ ParseSize

SpecTitle == InitTitle /\ [][NextTitle]_vars

\* ------------------------------ calls that rank several profiles at once
\* handles data_store comes to hold when a call for every profile and a
\* call for one profile are served together
MaxProfiles == 3

\* mock_server of the requests (main.py 207-210): one client asks without a
\* server name and is served for all of mock_servers, the others name the
\* first server
ProfilesAsked(c) == IF c = Worker THEN <<1, 2>> ELSE <<1>>

\* A request reaches handle_availability while data_store has room for its
\* handles beside those of the calls under way (main.py 186-210).
ArriveProfiles(c) ==
    /\ th[c].pc = "idle"
    /\ \E t \in Targets, srv \in {ProfilesAsked(c)} :
         /\ Len(data_store) + Reserved + Len(srv) <= MaxProfiles
         /\ th' = [th EXCEPT ![c] = Upd(IdleFrame,
                   [pc |-> "lock", route |-> "availability", query |-> t,
                    mock_server |-> srv, arrivedIdle |-> ~processing,
                    enteredDuring |-> InPipeline # {}])]
    /\ requests' = Min2(requests + 1, MaxRequests)
    /\ UNCHANGED <<releases, relStage, processing, processing_lock, since_search,
                   last_search_term, data_store, issued, reported, dl, pf>>

NextProfiles ==
    \/ \E c \in Calls : AdmittedBeside /\ ArriveProfiles(c)
    \/ \E c \in Calls : Enter(c)
    \/ \E c \in Calls : Identify(c)
    \/ \E c \in Calls : Scrape(c)
    \/ \E c \in Calls : CheckSend(c)
    \/ \E c \in Calls : Check(c)
    \/ \E c \in Calls : CheckFill(c)
    \/ \E c \in Calls : CheckSort(c)
    \/ \E c \in Calls : CheckPromote(c)
    \/ \E c \in Calls : CheckPrint(c)
    \/ \E c \in Calls : TypeFilter(c)
    \/ \E c \in Calls : TypeFilterTag(c)
    \/ \E c \in Calls : Copy(c)
    \/ \E c \in Calls : CopyFetch(c)
    \/ \E c \in Calls : CopyElem(c)
    \/ \E c \in Calls : Reset(c)
    \/ \E c \in Calls : Rank(c)

SpecProfiles == Init /\ [][NextProfiles]_vars

\* ------------------------------------- one realdebrid.download on its own
\* versions of the release handed to download
MaxVersions == 3
\* files of one version
MaxFiles == 1

\* what the service answers to torrents/info of a torrent it holds: as
\* many links as files were selected, another number of links, or nothing
\* usable
InfoAnswers == {"ready", "rejected", "none"}

\* the numbers of files of the versions of a release
VersionFiles(n) == [1..n -> 0..MaxFiles]

\* pf during one download(release): nv versions with files[v] files each,
\* the loop variable v, the next request (at), the torrent behind
\* torrent_id on the service (none, added, deleted), whether
\* release['download'] is set and how many links it holds, the requests
\* sent for torrent_id with whether the torrent existed then, and the
\* result
InitDownload ==
    /\ Loaded
    /\ \E n \in 0..MaxVersions, had \in BOOLEAN :
         \E fs \in VersionFiles(n),
            ls \in IF had THEN 0..MaxFiles ELSE {0} :
            pf = [fn |-> "download", nv |-> n, files |-> fs, v |-> 1,
                  at |-> "addMagnet", torrent |-> "none", download |-> had,
                  links |-> ls, sent |-> <<>>, returned |-> "none"]

Harness == <<releases, relStage, processing, processing_lock, since_search,
             last_search_term, requests, data_store, th, issued, reported, dl>>

\* a request for torrent_id, with the state of that torrent on the service
Sent(req) == Append(pf.sent, [req |-> req, v |-> pf.v,
                               exists |-> pf.torrent = "added"])

\* the next turn of "for version in release['versions']" (line 118), or the
\* statement after the loop (line 153)
NextVersionOrEnd == IF pf.v < pf.nv THEN "selectFiles" ELSE "after"

\* lines 110-116: addMagnet and torrent_id = response['id']; without a
\* response json.loads raises and line 165 catches it
AddMagnet ==
    /\ pf.fn = "download" /\ pf.at = "addMagnet"
    /\ \E answered \in BOOLEAN :
         pf' = IF ~answered
               THEN [pf EXCEPT !.at = "done", !.returned = "False"]
               ELSE [pf EXCEPT !.torrent = "added",
                               !.at = IF pf.nv = 0 THEN "after"
                                      ELSE "selectFiles"]
    /\ UNCHANGED Harness

\* lines 119-126: selectFiles for the ids of the version; session.post
\* returns None when the service refuses, it does not raise
SelectFiles ==
    /\ pf.fn = "download" /\ pf.at = "selectFiles"
    /\ pf' = [pf EXCEPT !.sent = Sent("selectFiles"), !.at = "info"]
    /\ UNCHANGED Harness

\* lines 128-139, 149-151: torrents/info of torrent_id.  For a torrent the
\* service does not hold, the 404 is retried until session.get returns
\* None, json.loads raises and the loop continues.  With len(links) =
\* len(ids) release['download'] is the list of links, which is empty for a
\* version without files.
Info ==
    /\ pf.fn = "download" /\ pf.at = "info"
    /\ \E answer \in InfoAnswers :
         /\ pf.torrent # "added" => answer = "none"
         /\ pf' = Upd(IF answer = "ready"
                      THEN [pf EXCEPT !.download = TRUE,
                                      !.links = pf.files[pf.v],
                                      !.at = "after"]
                      ELSE IF answer = "rejected"
                      THEN [pf EXCEPT !.at = "delete"]
                      ELSE [pf EXCEPT !.at = NextVersionOrEnd,
                                      !.v = pf.v + 1],
                      [sent |-> Sent("info")])
    /\ UNCHANGED Harness

\* lines 144-148: DELETE torrents/delete/torrent_id after a rejected
\* combination; torrent_id is kept for the next version
DeleteTorrent ==
    /\ pf.fn = "download" /\ pf.at = "delete"
    /\ \E answered \in BOOLEAN :
         pf' = [pf EXCEPT !.torrent = IF answered THEN "deleted" ELSE @,
                          !.at = NextVersionOrEnd, !.v = pf.v + 1]
    /\ UNCHANGED Harness

\* release.get('download') of line 153: the key is set and its list of
\* links is not empty
HasDownload == pf.download /\ pf.links > 0

\* lines 153-168: False when release['download'] is not set or is an empty
\* list; otherwise line 162 reads the loop variable version, which a
\* release without versions never bound: the UnboundLocalError is caught
\* at line 165 and download returns False
AfterVersions ==
    /\ pf.fn = "download" /\ pf.at = "after"
    /\ pf' = [pf EXCEPT !.at = "done",
                        !.returned = IF HasDownload /\ pf.nv > 0
                                     THEN "True" ELSE "False"]
    /\ UNCHANGED Harness

NextDownload ==
    AddMagnet \/ SelectFiles \/ Info \/ DeleteTorrent \/ AfterVersions

SpecDownload == InitDownload /\ [][NextDownload]_vars

\* ------------------------------------------------------------ claims
\* C5: at most one call at a time is executing the fetch-and-check pipeline
\* (identify/search, scrape, check, type_filter).
C5_OnePipeline == Cardinality(InPipeline) <= 1

\* a call of one route is inside the pipeline, changing the list, while a
\* call of the other route is waiting for the lock
C5_Witness ==
    \E c \in InPipeline, d \in Calls :
        /\ th[d].pc = "lock"
        /\ th[c].route = "search" /\ th[d].route = "availability"
        /\ th[c].pc = "fill"

\* calls that still hold the slot flag for a run of their own
Resolving(T) ==
    {d \in Calls : T[d].ran /\ T[d].pc \in {"identify", "scrape", "check",
                                             "lookup", "fill", "sorting",
                                             "sorted", "print", "filter",
                                             "tag", "copy", "fetch",
                                             "elem", "reset"}}

\* C1: among calls for the same target that arrived while the slot was Idle
\* and overlap in time, the fetch-and-check sequence is run once: no two of
\* them both run the pipeline.
C1_FetchedOnce ==
    \A c \in Active, d \in Active :
        ( /\ c # d
          /\ th[c].query = th[d].query
          /\ th[c].arrivedIdle /\ th[d].arrivedIdle )
        => ~(th[c].ran /\ th[d].ran)

\* C2: the list a call stores behind a handle holds only candidates that
\* were fetched for the call's own target.
C2_OwnTarget ==
    \A h \in DOMAIN issued :
        \A i \in DOMAIN issued[h].hashes :
            TargetOf(issued[h].hashes[i]) = issued[h].query

\* C3: when a call that moved the slot from Idle to Resolving leaves its
\* handler, by return or by an exception of a pipeline step, the slot flag is
\* Idle, unless another call has since set it for a run of its own.
C3_IdleAtExit ==
    [][\A c \in Calls :
         (th[c].ran /\ th[c].pc # "idle" /\ th'[c].pc = "idle")
         => (processing' = FALSE \/ Resolving(th') # {})]_vars

\* C4: a search call whose query is no longer the one most recently
\* recorded in the debounce register returns the empty result when its wait
\* ends: it does not go on to the slot.
C4_SupersededReturns ==
    [][\A c \in Calls :
         (th[c].pc = "woke" /\ th[c].superseded /\ th'[c].pc # "woke")
         => th'[c].pc = "idle"]_vars

\* C6: a call that entered while another call's pipeline was running does
\* not run the pipeline itself, and every list it ranks and stores is a
\* snapshot on which scrape, check and type_filter have all finished.
C6_ReusesCompleted ==
    /\ \A c \in Active : th[c].enteredDuring => ~th[c].ran
    /\ \A h \in DOMAIN issued :
          issued[h].during => issued[h].stage = "filtered"

\* C7: a resolution whose source fetch or cache lookup got no response
\* produces no ranked list and no handle for its caller.
C7_FailedPublishesNothing ==
    \A h \in DOMAIN issued : ~issued[h].failed

\* C8: every candidate stored behind a handle was listed with a non-empty
\* file-group list by an availability response that was received.
C8_StoredWereReported ==
    \A h \in DOMAIN data_store :
        \A i \in DOMAIN data_store[h] : data_store[h][i].hash \in reported

\* candidates are stored behind a handle while the slot's snapshot is the
\* unverified list left by a lookup that got no response
C8_Witness ==
    /\ \E h \in DOMAIN data_store : data_store[h] # <<>>
    /\ relStage = "checked"
    /\ releases # <<>>
    /\ \A i \in DOMAIN releases : ~Has(releases[i], "episodes")

\* C9: for a stored handle and an offset i with 0 <= i < len, the first
\* candidate handed to realdebrid.download is the i-th candidate of the list
\* as it was ranked and stored under that handle.
C9_SelectsIth ==
    (dl.known /\ dl.num >= 0 /\ dl.num < dl.len)
    => /\ dl.attempted # <<>>
       /\ dl.attempted[1] = issued[dl.id].hashes[dl.num + 1]

\* offset 1 of a stored list of two candidates that ranking had reordered
\* was selected and downloaded
C9_Witness ==
    /\ dl.known /\ dl.num = 1 /\ dl.len = 2
    /\ dl.outcome = "returned" /\ dl.ok
    /\ issued[dl.id].hashes[1] > issued[dl.id].hashes[2]
    /\ dl.refreshed = issued[dl.id].hashes[2]

\* C10: a download request with an unknown handle or with an offset outside
\* 0..len-1 downloads no candidate, triggers no library refresh and leaves
\* data_store unchanged.
C10_NotFound ==
    (dl.outcome # "none" /\ (~dl.known \/ dl.num < 0 \/ dl.num >= dl.len))
    => (dl.attempted = <<>> /\ dl.refreshed = 0 /\ ~dl.changed)

\* C11: what a handle maps to never changes once it is stored: every later
\* step leaves each stored list as it was, in length, order and every field
\* of its candidates, and removes no entry.
C11_WriteOnce ==
    [][\A h \in DOMAIN data_store :
         h \in DOMAIN data_store' /\ data_store'[h] = data_store[h]]_vars

\* C12: the list stored behind a handle holds at most RESULTS candidates of
\* the server it was ranked for, and no download request through a handle
\* reaches a candidate at position RESULTS or later.
C12_Truncated ==
    /\ \A h \in DOMAIN data_store :
          Len(data_store[h]) <= Servers[issued[h].server].RESULTS
    /\ (dl.known /\ dl.attempted # <<>>)
          => \A i \in DOMAIN data_store[dl.id] :
                (data_store[dl.id][i].hash \in SeqToSet(dl.attempted))
                => i <= Servers[issued[dl.id].server].RESULTS

\* the sort has returned a list
Sorted == pf.fn = "sort" /\ pf.runs >= 1 /\ ~pf.out1.raised

\* position of release x in list l
Pos(l, x) == CHOOSE i \in DOMAIN l : l[i] = x

\* the sort keys of a server, the primary one first: the rules from the one
\* applied last to the one applied first, then 'episodes'
KeysByPriority(server) ==
    [i \in 1..Len(server.RULES) |->
        RuleKey(server.RULES[Len(server.RULES) + 1 - i])] \o <<"episodes">>

\* x comes before y: greater on the first key on which they differ, or
\* equal on every key and earlier in the input
ComesFirst(keys, input, x, y) ==
    \/ \E i \in DOMAIN keys :
          /\ x[keys[i]] > y[keys[i]]
          /\ \A j \in 1..(i - 1) : x[keys[j]] = y[keys[j]]
    \/ /\ \A i \in DOMAIN keys : x[keys[i]] = y[keys[i]]
       /\ Pos(input, x) < Pos(input, y)

\* C13: the ranked order is the stable descending sort by 'episodes'
\* followed by one stable descending pass per rule: the rule applied last is
\* the primary key, releases equal on it keep the order of the earlier
\* passes, and releases equal on every key keep their input order.
C13_RankedOrder ==
    Sorted =>
      \A i, j \in DOMAIN pf.out1.list :
         i < j => ComesFirst(KeysByPriority(Servers[pf.server]), pf.list,
                             pf.out1.list[i], pf.out1.list[j])

\* three releases were ranked by two rules; the primary key left a tie that
\* the earlier rule decided, and the order changed
C13_Witness ==
    /\ Sorted
    /\ Len(Servers[pf.server].RULES) = 2
    /\ Len(pf.out1.list) = 3
    /\ pf.out1.list # pf.list
    /\ pf.out1.list[1].seeders = pf.out1.list[2].seeders
    /\ pf.out1.list[1].size > pf.out1.list[2].size

PassesAll(server, x) ==
    \A k \in DOMAIN server.FILTERS : EvalFilter(server.FILTERS[k], x)

Occurrences(l, x) == Cardinality({i \in DOMAIN l : l[i] = x})

\* C14: the ranked list holds each input release that satisfies every
\* filter of the server as often as the input does, and no other release.
C14_FilteredPermutation ==
    Sorted =>
      \A x \in SeqToSet(pf.list) \cup SeqToSet(pf.out1.list) :
         Occurrences(pf.out1.list, x) =
            IF PassesAll(Servers[pf.server], x)
            THEN Occurrences(pf.list, x) ELSE 0

\* a server with two filters ranked a list of which one release passes
\* both, one only the first and one only the second
C14_Witness ==
    /\ Sorted
    /\ Len(Servers[pf.server].FILTERS) = 2
    /\ Len(pf.list) = 3 /\ Len(pf.out1.list) = 1
    /\ \E i, j \in DOMAIN pf.list :
          /\ EvalFilter(Servers[pf.server].FILTERS[1], pf.list[i])
          /\ ~EvalFilter(Servers[pf.server].FILTERS[2], pf.list[i])
          /\ ~EvalFilter(Servers[pf.server].FILTERS[1], pf.list[j])
          /\ EvalFilter(Servers[pf.server].FILTERS[2], pf.list[j])

\* C15: two runs of sort on equal lists with the same server return the
\* same result, whichever of the results that list.sort leaves open the
\* second run takes.
C15_Deterministic ==
    (pf.fn = "sort" /\ pf.runs = 2) => pf.out2 = pf.out1

\* sort ran twice on a list of three releases with equal keys among them
C15_Witness ==
    /\ pf.fn = "sort" /\ pf.runs = 2
    /\ ~pf.out2.raised
    /\ Len(pf.out2.list) = 3
    /\ pf.out2.list # pf.list
    /\ \E i, j \in DOMAIN pf.list :
          i # j /\ pf.list[i].resolution = pf.list[j].resolution

\* type_filter has returned for a request of the given kind
Filtered == pf.fn = "type_filter" /\ pf.runs = 1 /\ ~pf.out.raised

\* the input release the output release x comes from
Origin(x) == CHOOSE r \in SeqToSet(pf.list) : r.hash = x.hash

\* The output keeps exactly the releases and versions of the set K: the
\* releases of the input that are in K, in input order, each with those of
\* its versions that are in K, in order.
KeepsExactly(K) ==
    LET InK(x) == x \in K
        want == SelectSeq(pf.list, InK)
    IN  /\ HashesOf(pf.out.list) = HashesOf(want)
        /\ \A i \in DOMAIN pf.out.list :
              pf.out.list[i].versions = SelectSeq(want[i].versions, InK)

\* the releases of the input and their versions
Things ==
    SeqToSet(pf.list) \cup
    UNION {SeqToSet(pf.list[i].versions) : i \in DOMAIN pf.list}

\* C16: after type filtering for a movie no kept release and no version of
\* a kept release has videos = 0, every release with videos > 0 is kept,
\* and every kept release has type "movie".
C16_MovieFilter ==
    (Filtered /\ pf.rq.type = "movie") =>
      /\ \A i \in DOMAIN pf.out.list :
            LET x == pf.out.list[i]
            IN  /\ x.videos # 0
                /\ \A v \in DOMAIN x.versions : x.versions[v].videos # 0
                /\ Has(x, "type") /\ x.type = "movie"
      /\ \A i \in DOMAIN pf.list :
            pf.list[i].videos > 0
            => pf.list[i].hash \in SeqToSet(HashesOf(pf.out.list))

\* a movie filter dropped a release without videos and, from a kept
\* release, a version without videos
C16_Witness ==
    /\ Filtered /\ pf.rq.type = "movie"
    /\ Len(pf.out.list) > 0 /\ Len(pf.out.list) < Len(pf.list)
    /\ \E i \in DOMAIN pf.out.list :
          Len(pf.out.list[i].versions) < Len(Origin(pf.out.list[i]).versions)

\* the requested seasons that x does not have
Missing(x) == SeqToSet(pf.rq.s) \ SeqToSet(x.seasons)

\* C17: for a show with more than one requested season a release, and
\* likewise each version of a kept release, is kept if and only if at most
\* half of the requested seasons are missing from its seasons and its
\* episodes is greater than 1.
C17_SeveralSeasons ==
    (Filtered /\ pf.rq.type = "show" /\ Len(pf.rq.s) > 1) =>
      KeepsExactly({x \in Things :
                      /\ 2 * Cardinality(Missing(x)) <= Len(pf.rq.s)
                      /\ x.episodes > 1})

\* of two requested seasons a kept release has only one (exactly half
\* missing), and another release was dropped
C17_Witness ==
    /\ Filtered /\ pf.rq.type = "show" /\ Len(pf.rq.s) = 2
    /\ Len(pf.out.list) < Len(pf.list)
    /\ \E i \in DOMAIN pf.out.list :
          Cardinality(Missing(pf.out.list[i])) = 1

\* C18: for a show with exactly one requested season and no episode asked
\* for a release, and likewise each version of a kept release, is kept if
\* and only if its seasons contain the requested season and its episodes is
\* greater than 1.
C18_OneSeason ==
    (Filtered /\ pf.rq.type = "show" /\ Len(pf.rq.s) = 1 /\ ~pf.rq.asked) =>
      KeepsExactly({x \in Things : Missing(x) = {} /\ x.episodes > 1})

\* a season filter kept a release, dropped one of its versions and dropped
\* a release with a single episode of the season
C18_Witness ==
    /\ Filtered /\ pf.rq.type = "show" /\ Len(pf.rq.s) = 1 /\ ~pf.rq.asked
    /\ \E i \in DOMAIN pf.out.list :
          Len(pf.out.list[i].versions) < Len(Origin(pf.out.list[i]).versions)
    /\ \E i \in DOMAIN pf.list :
          /\ pf.list[i].episodes = 1 /\ Missing(pf.list[i]) = {}
          /\ pf.list[i].hash \notin SeqToSet(HashesOf(pf.out.list))

\* C19: for a show with exactly one requested season and an episode asked
\* for, whatever its number, a release, and likewise each version of a kept
\* release, is kept if and only if its seasons contain the requested season
\* and its episodes equals 1; every kept release has type "show".
C19_OneEpisode ==
    (Filtered /\ pf.rq.type = "show" /\ Len(pf.rq.s) = 1 /\ pf.rq.asked) =>
      /\ KeepsExactly({x \in Things : Missing(x) = {} /\ x.episodes = 1})
      /\ \A i \in DOMAIN pf.out.list :
            Has(pf.out.list[i], "type") /\ pf.out.list[i].type = "show"

\* C20: in the snapshot a resolution produces and in the list it ranks and
\* stores no two candidates have the same hash, whatever entries torrentio
\* returned.
C20_UniqueHash ==
    (pf.fn = "resolve" /\ pf.runs >= 3 /\ ~pf.out.raised) =>
      \A i, j \in DOMAIN pf.out.list :
         i # j => pf.out.list[i].hash # pf.out.list[j].hash

\* C21: a call of session.request makes at most MAX_RETRIES attempts,
\* whether they were answered with a retryable status or raised a request
\* exception, gives None only after exactly MAX_RETRIES failed attempts,
\* and always returns.
C21_BoundedRetries ==
    /\ [](pf.fn = "request" =>
            /\ Len(pf.attempts) <= MAX_RETRIES
            /\ pf.returned = "None" =>
                 /\ Len(pf.attempts) = MAX_RETRIES
                 /\ \A i \in DOMAIN pf.attempts :
                      \/ pf.attempts[i] = "RequestException"
                      \/ pf.attempts[i] \in Sessions[pf.session].RETRY_CODES)
    /\ <>(pf.fn = "request" => pf.returned # "running")

C21_Witness ==
    /\ pf.fn = "request" /\ pf.returned = "None"
    /\ Len(pf.attempts) = MAX_RETRIES
    /\ \E i, j \in DOMAIN pf.attempts :
         /\ pf.attempts[i] = "RequestException"
         /\ pf.attempts[j] \in Sessions[pf.session].RETRY_CODES

\* C22: a search call reaches the coalescer only in a step taken when more
\* than the quiet threshold has passed since the latest timestamp any
\* search call recorded.
C22_QuietBeforeCoalescer ==
    [][\A c \in Calls :
         (th[c].route = "search" /\ th[c].pc # "lock" /\ th'[c].pc = "lock")
         => since_search > QuietThreshold]_vars

\* C22, as the code has it: a search call leaves the debounce loop only in a
\* step taken when more than the quiet threshold has passed since the latest
\* timestamp any search call recorded; every search call that arrives
\* records the present time, which only the passing of time moves away
\* from, so it postpones the calls that are in the loop.
C22_QuietBeforeLeaving ==
    [][/\ \A c \in Calls :
            /\ (th[c].pc = "wait" /\ th'[c].pc # "wait") =>
                   since_search > QuietThreshold
            /\ (th[c].pc # "wait" /\ th'[c].pc = "wait") =>
                   since_search' = 0
       /\ since_search' # since_search =>
            \/ since_search' = since_search + 1
            \/ \E c \in Calls : th[c].pc # "wait" /\ th'[c].pc = "wait"
      ]_vars

\* a search call has left the loop after the quiet period while another
\* one, postponed by a later search, is still in it
C22_Witness ==
    \E c, d \in Calls :
        /\ c # d
        /\ th[c].pc = "wait" /\ th[c].superseded
        /\ th[d].route = "search" /\ th[d].pc \in {"woke", "lock"}

\* C23: a step that ranks a list for one profile leaves the shared
\* snapshot, the local lists of every other call and every list already
\* stored behind a handle as they were, in length, order and fields.
C23_PrivateCopy ==
    [][\A c \in Calls :
         (th[c].pc = "rank" /\ th'[c] # th[c]) =>
            /\ releases' = releases
            /\ \A d \in Calls \ {c} :
                 th'[d].local_releases = th[d].local_releases
            /\ \A i \in DOMAIN data_store :
                 i \in DOMAIN data_store' /\ data_store'[i] = data_store[i]
      ]_vars

\* two profiles were ranked from one filtered snapshot: one list was
\* reordered, the other lost a candidate, and the snapshot holds its
\* candidates in the order type_filter left them
C23_Witness ==
    /\ relStage = "filtered" /\ Len(releases) > 1
    /\ \E i, j \in DOMAIN data_store :
         /\ Len(data_store[i]) = Len(releases)
         /\ SeqToSet(HashesOf(data_store[i])) = SeqToSet(HashesOf(releases))
         /\ HashesOf(data_store[i]) # HashesOf(releases)
         /\ Len(data_store[j]) < Len(releases)
         /\ Len(data_store[j]) > 0
         /\ SeqToSet(HashesOf(data_store[j])) \subseteq
                SeqToSet(HashesOf(releases))
         /\ \A x \in DOMAIN releases : Has(releases[x], "versions")

\* the releases of the entries that can be read, in the order of the
\* response
RECURSIVE WellFormedInOrder(_)
WellFormedInOrder(streams) ==
    IF streams = <<>> THEN <<>>
    ELSE IF EntryRaises(Head(streams)) THEN WellFormedInOrder(Tail(streams))
    ELSE <<ScrapeEntry(Head(streams))>> \o WellFormedInOrder(Tail(streams))

\* C24: scrape returns, without raising, exactly the releases of the
\* well-formed entries of the response, in the order of the response; an
\* entry that cannot be parsed is the only thing left out.
C24_SkipsOnlyMalformed ==
    (pf.fn = "resolve" /\ pf.runs = 1) =>
        /\ ~pf.out.raised
        /\ pf.out.list = WellFormedInOrder(pf.streams)

\* a response whose second entry cannot be parsed, between two that can
C24_Witness ==
    /\ pf.fn = "resolve" /\ pf.runs = 1
    /\ Len(pf.streams) = 3
    /\ EntryRaises(pf.streams[2])
    /\ Len(pf.out.list) = 2
    /\ pf.out.list[1] = ScrapeEntry(pf.streams[1])
    /\ pf.out.list[2] = ScrapeEntry(pf.streams[3])

\* C25: plex.library.refresh is called for a download request only when
\* one of its downloads returned True, and with the release of that
\* download; a request whose downloads all failed calls no refresh.
C25_RefreshOnlyOnSuccess ==
    dl.refreshed # 0 =>
        /\ dl.ok
        /\ dl.attempted # <<>>
        /\ dl.refreshed = dl.attempted[Len(dl.attempted)]

\* C26: when realdebrid.check returns, every release left in the list was
\* listed with a non-empty 'rd' list by the response this lookup received;
\* after a lookup that got no usable response no release is left.
C26_OnlyReportedRemain ==
    [][\A c \in Calls :
         (th[c].pc \in {"check", "lookup", "sorting", "print"}
          /\ th'[c].pc = "filter") =>
            \A i \in DOMAIN releases' :
                /\ IsCached(releases'[i])
                /\ ~(th'[c].failed /\ ~th[c].failed)
      ]_vars

\* x is at least as good a primary version as y: more videos, or as many
\* and at least the share of videos among its files (taken as equal when
\* one of them has no file)
AtLeastAsGood(x, y) ==
    \/ x.videos > y.videos
    \/ /\ x.videos = y.videos
       /\ x.videos * Len(y.files) >= y.videos * Len(x.files)

\* the version of the report rd that the ordering puts first: the earliest
\* of those no other version is better than
PrimaryOf(built) ==
    LET best == {g \in DOMAIN built :
                    \A k \in DOMAIN built : AtLeastAsGood(built[g], built[k])}
    IN  built[CHOOSE g \in best : \A k \in best : g <= k]

\* C27: after the cache check, the first version of every release that has
\* versions is the one with the most videos, among those the one with the
\* highest share of videos among its files, among those the earliest the
\* service reported; this also when a reported grouping holds no file.
C27_PrimaryVersion ==
    (pf.fn = "resolve" /\ pf.runs = 2) =>
        \A i \in DOMAIN pf.out.list :
            LET r == pf.out.list[i]
            IN  r.versions # <<>> =>
                  \E m \in BOOLEAN :
                     LET rd == ResponseRd(r.hash, m)
                         built == [g \in DOMAIN rd |-> MakeVersion(rd[g])]
                     IN  /\ Len(built) = Len(r.versions)
                         /\ r.versions[1] = PrimaryOf(built)

\* the aggregates of release r are those of the first of its versions
AggregatesOfFirst(r) ==
    /\ r.versions # <<>>
    /\ Has(r, "videos") /\ Has(r, "seasons") /\ Has(r, "episodes")
    /\ r.size = r.versions[1].size
    /\ r.videos = r.versions[1].videos
    /\ r.seasons = r.versions[1].seasons
    /\ r.episodes = r.versions[1].episodes

\* C28: after the cache check, and again after type_filter, every release
\* left in the list has at least one version, and its size, videos, seasons
\* and episodes are those of the first version of its list.
C28_AggregatesOfPrimary ==
    (pf.fn = "resolve" /\ pf.runs \in {2, 3}) =>
        \A i \in DOMAIN pf.out.list : AggregatesOfFirst(pf.out.list[i])

\* the names of a grouping that do not match the sample pattern, in order
WithoutSamples(names) ==
    LET Plain(filename) == ~filename.sample IN SelectSeq(names, Plain)

\* C29: the videos of a version count its files with a video extension and
\* no "sample" in the name; a file with "sample" in its name is not a video
\* whatever its extension, and the version has the videos, episodes and
\* seasons it would have without such files.
C29_SamplesNeverVideo ==
    (pf.fn = "version" /\ pf.runs = 1) =>
        /\ pf.out.videos =
              Cardinality({i \in DOMAIN pf.names :
                              pf.names[i].ext = "video" /\ ~pf.names[i].sample})
        /\ \A i \in DOMAIN pf.out.files :
              pf.out.files[i].name.sample => ~pf.out.files[i].video
        /\ pf.out.videos = VersionOf(WithoutSamples(pf.names)).videos
        /\ pf.out.episodes = VersionOf(WithoutSamples(pf.names)).episodes
        /\ pf.out.seasons = VersionOf(WithoutSamples(pf.names)).seasons

\* a version built from a sample with a video extension and an episode
\* token of season 1 and a video of season 2
C29_Witness ==
    /\ pf.fn = "version" /\ pf.runs = 1
    /\ \E i, j \in DOMAIN pf.names :
         /\ pf.names[i].ext = "video" /\ pf.names[i].sample
         /\ pf.names[i].season = 1 /\ pf.names[i].episode # 0
         /\ pf.names[j].ext = "video" /\ ~pf.names[j].sample
         /\ pf.names[j].season = 2
    /\ pf.out.videos = 1 /\ pf.out.episodes = 1 /\ pf.out.seasons = <<2>>

RECURSIVE IsSubList(_, _)
\* a can be had from b by leaving elements out
IsSubList(a, b) ==
    IF a = <<>> THEN TRUE
    ELSE IF b = <<>> THEN FALSE
    ELSE IF Head(a) = Head(b) THEN IsSubList(Tail(a), Tail(b))
    ELSE IsSubList(a, Tail(b))

\* C30: in a resolution, the cache check and type_filter give a sub-list of
\* the list they were handed, in the same order; the ranking of a profile
\* gives no release that its input does not hold, nor more often; after
\* the cache check no stage adds a version to a release or reorders its
\* versions.  What a stage has removed therefore stays away.
C30_RemovalIsFinal ==
    [][(pf.fn = "resolve" /\ pf.runs >= 1 /\ pf'.runs = pf.runs + 1) =>
         LET in == pf.out.list
             out == pf'.out.list
         IN  /\ pf.runs \in {1, 2} =>
                  IsSubList(HashesOf(out), HashesOf(in))
             /\ pf.runs = 3 =>
                  /\ \A i \in DOMAIN out :
                       Occurrences(HashesOf(out), out[i].hash) <=
                           Occurrences(HashesOf(in), out[i].hash)
                  /\ \E k \in DOMAIN Servers :
                       LET passed == ApplyFilters(Servers[k].FILTERS, in)
                       IN  /\ IsSubList(passed, in)
                           /\ pf'.out.raised \/ Len(out) = Len(passed)
             /\ pf.runs \in {2, 3} =>
                  \A i \in DOMAIN out : \E j \in DOMAIN in :
                      /\ out[i].hash = in[j].hash
                      /\ IsSubList(out[i].versions, in[j].versions)
      ]_vars

\* a ranked resolution of three streams: the cache check removed one that
\* is not cached, type_filter one without a video and a version of the
\* third
C30_Witness ==
    /\ pf.fn = "resolve" /\ pf.runs = 4 /\ ~pf.out.raised
    /\ Len(pf.streams) = 3
    /\ \A i \in DOMAIN pf.streams : ~EntryRaises(pf.streams[i])
    /\ \E i \in DOMAIN pf.streams :
         ~InResponse(Lower(pf.streams[i].infoHash))
    /\ \E i \in DOMAIN pf.streams :
         LET rd == ResponseRd(Lower(pf.streams[i].infoHash), FALSE)
         IN  rd # <<>> /\ \A g \in DOMAIN rd : MakeVersion(rd[g]).videos = 0
    /\ Len(pf.out.list) = 1
    /\ Len(pf.out.list[1].versions) = 1
    /\ Len(ResponseRd(pf.out.list[1].hash, FALSE)) > 1

\* the attempt ended with a retryable status or a request exception
FailedAttempt(k, o) ==
    o = "RequestException" \/ o \in Sessions[k].RETRY_CODES

\* C31: session.request returns the response of the first attempt whose
\* status is not retryable and attempts nothing after it; it returns None
\* exactly when each of its MAX_RETRIES attempts ended with a retryable
\* status or a request exception.
C31_FirstUsableResponse ==
    /\ [](pf.fn = "request" =>
            LET n == Len(pf.attempts)
                allFailed == \A i \in 1..n :
                                FailedAttempt(pf.session, pf.attempts[i])
            IN  /\ pf.returned \notin {"running", "None"} =>
                     /\ n >= 1 /\ pf.returned = pf.attempts[n]
                     /\ ~FailedAttempt(pf.session, pf.attempts[n])
                     /\ \A i \in 1..(n - 1) :
                          FailedAttempt(pf.session, pf.attempts[i])
                /\ pf.returned = "None" => (n = MAX_RETRIES /\ allFailed)
                /\ (n = MAX_RETRIES /\ allFailed) =>
                     pf.returned \in {"running", "None"})
    /\ [][(pf.fn = "request" /\ pf.returned # "running") => pf' = pf]_vars
    /\ []((pf.fn = "request" /\ Len(pf.attempts) = MAX_RETRIES
              /\ \A i \in DOMAIN pf.attempts :
                    FailedAttempt(pf.session, pf.attempts[i]))
            => <>(pf.returned = "None"))

\* a status that only the real-debrid session retries was returned by the
\* other session at the second attempt, after a retryable first one
C31_Witness ==
    /\ pf.fn = "request" /\ pf.session = "torrentio"
    /\ pf.attempts = <<"503", "404">>
    /\ pf.returned = "404"

\* C32: a download request for a stored handle and an offset i >= 0 hands
\* to realdebrid.download the candidates at offsets i, i+1, ... of the list
\* as it was ranked, in that order and without a gap; it stops with the
\* first download that succeeds and otherwise goes on to the end of the
\* list.
C32_AttemptsInOrder ==
    (dl.known /\ dl.num >= 0) =>
        LET n == Len(dl.attempted)
            ranked == issued[dl.id].hashes
        IN  /\ n <= Max2(dl.len - dl.num, 0)
            /\ dl.attempted = SubSeq(ranked, dl.num + 1, dl.num + n)
            /\ dl.ok => (dl.at \in {"refresh", "idle"} /\ n >= 1)
            /\ dl.outcome = "returned" =>
                  /\ dl.ok => dl.refreshed = dl.attempted[n]
                  /\ ~dl.ok => dl.num + n = Max2(dl.len, dl.num)

\* the download of the first candidate failed and that of the second
\* succeeded
C32_Witness ==
    /\ dl.known /\ dl.num = 0 /\ dl.len = 2
    /\ Len(dl.attempted) = 2
    /\ dl.outcome = "returned" /\ dl.ok
    /\ dl.attempted = issued[dl.id].hashes

\* the positions at which a flag of the title begins: two indicators in a
\* row, the first an even number of indicators after the start of its run
FlagStarts(title) ==
    {i \in 1..(Len(title) - 1) :
        /\ title[i] \in Indicators /\ title[i + 1] \in Indicators
        /\ LET run == {k \in 1..i : \A m \in k..i : title[m] \in Indicators}
           IN  Cardinality(run) % 2 = 1}

\* C33: languages holds, for each flag of the title in the order of
\* appearance, its code from the table, or the flag itself when the table
\* does not have it; a title without a flag gives exactly EN.
C33_LanguagesOfFlags ==
    (pf.fn = "languages" /\ pf.runs = 1) =>
        LET starts == FlagStarts(pf.title)
            Before(i) == Cardinality({k \in starts : k < i})
        IN  IF starts = {} THEN pf.out = <<[code |-> "EN"]>>
            ELSE /\ Len(pf.out) = Cardinality(starts)
                 /\ \A i \in starts :
                      LET flag == SubSeq(pf.title, i, i + 1)
                      IN  pf.out[Before(i) + 1] =
                             IF flag = <<"B", "G">> THEN [code |-> "BG"]
                             ELSE IF "X" \notin SeqToSet(flag)
                             THEN [code |-> "EN"]
                             ELSE [flag |-> flag]

\* a title with a flag of the table and, after it, one the table lacks
C33_Witness ==
    /\ pf.fn = "languages" /\ pf.runs = 1
    /\ pf.title = <<"B", "G", "X", "G">>
    /\ pf.out = <<[code |-> "BG"], [flag |-> <<"X", "G">>]>>

\* the sizes a and b, each parts / 10^MaxDigits / per GB, are the same
SameSize(a, b) == a.parts * b.per = b.parts * a.per

\* C34: a title whose size marker is followed by the decimal number n and
\* GB gives the size n, with MB it gives n / 1000, and a title without the
\* marker gives 0; this for n of any number of digits, with or without a
\* fractional part.
C34_SizeOfTitle ==
    (pf.fn = "size" /\ pf.runs = 1) =>
        SameSize(pf.out,
                 IF pf.title.marker
                 THEN [parts |-> Float(pf.title.chars),
                       per |-> IF pf.title.unit = "GB" THEN 1 ELSE 1000]
                 ELSE [parts |-> 0, per |-> 1])

\* C35: processing is True whenever some call is executing the pipeline.
C35_FlagReflectsSlot == InPipeline # {} => processing


\* C36: every profile of one call is ranked from the snapshot the call
\* copied after the pipeline it ran or waited for: in each turn of the loop
\* over mock_server the list handed to sort holds the hashes of that copy.
C36_OneSnapshotPerCall ==
    [][\A c \in Calls :
         (th[c].pc = "rank" /\ th'[c] # th[c])
         => HashesOf(RankSource(c)) = th[c].snapshot]_vars


\* the calls that have passed the coalescer's lock and not left the handler
PastLock == {c \in Calls : th[c].pc \in
                 {"identify", "scrape", "check", "lookup", "fill", "sorting",
                  "sorted", "print", "filter", "tag", "copy", "fetch",
                  "elem", "reset", "recopy", "rank"}}

\* C37: a call that reaches "with processing_lock:" eventually acquires the
\* lock, and a call that has acquired it eventually leaves its handler.
C37_NoCallBlockedForever ==
    \A c \in Calls :
        /\ (th[c].pc = "lock") ~> (c \in PastLock \/ th[c].pc = "idle")
        /\ (c \in PastLock) ~> (th[c].pc = "idle")

\* C37, as the code has it: a call that has acquired the lock eventually
\* leaves its handler, and a call stays for ever at "with processing_lock:"
\* only while another call acquires the lock again and again.
C37_BlockedOnlyByTakers ==
    \A c \in Calls :
        /\ (c \in PastLock) ~> (th[c].pc = "idle")
        /\ <>[](th[c].pc = "lock")
              => \E d \in Calls \ {c} : []<><<Enter(d)>>_vars

\* a call waits for the lock after an earlier pipeline raised and left
\* processing set
C37_Witness ==
    \E c \in Calls :
        /\ th[c].pc = "lock"
        /\ processing
        /\ \A d \in Calls \ {c} : th[d].pc = "idle"


\* C38: in every Version the cache check builds, episodes <= videos <=
\* number of files, subtitles <= number of files, and each entry of seasons
\* is the season token of one of the Version's video files and occurs once.
C38_VersionCounts ==
    (pf.fn = "version" /\ pf.runs = 1) =>
        LET v == pf.out
        IN  /\ v.episodes <= v.videos
            /\ v.videos <= Len(v.files)
            /\ v.subtitles <= Len(v.files)
            /\ \A i \in DOMAIN v.seasons :
                  /\ \E j \in DOMAIN v.files :
                        v.files[j].video /\ v.files[j].season = v.seasons[i]
                  /\ \A k \in DOMAIN v.seasons : v.seasons[k] = v.seasons[i] => k = i

\* a grouping of two videos of one season and a sample that carries the
\* token of another: one season is listed, two videos and episodes counted
C38_Witness ==
    /\ pf.fn = "version" /\ pf.runs = 1
    /\ Len(pf.out.files) = 3
    /\ pf.out.videos = 2 /\ pf.out.episodes = 2
    /\ Len(pf.out.seasons) = 1
    /\ \E j \in DOMAIN pf.out.files :
          /\ ~pf.out.files[j].video
          /\ pf.out.files[j].episode # 0
          /\ pf.out.files[j].season \notin SeqToSet(pf.out.seasons)


\* C39: within one download call every selectFiles and torrents/info
\* request is sent for a torrent that the service holds at that moment.
C39_TargetsLiveTorrent ==
    pf.fn = "download" =>
        \A i \in DOMAIN pf.sent : pf.sent[i].exists

====
